---- MODULE Spec2Model ----
(***************************************************************************)
(* tkDocViewer: the DocViewer widget (widget.py), the rendering thread     *)
(* that feeds it through a queue (rendering.py; the same class is kept in  *)
(* backends/ghostscript.py), the older self-contained rendering thread     *)
(* (backend_gs.py) and the backend objects (backends/).                    *)
(*                                                                         *)
(* widget.py starts "RenderingThread"; the thread class that rendering.py  *)
(* defines is GhostscriptThread, with the same constructor signature, and  *)
(* it is the worker modelled here.                                         *)
(***************************************************************************)
EXTENDS Integers, Sequences, FiniteSets, TLC

(* ------------------------------ bounds -------------------------------- *)

\* Number of rendering threads one behaviour may start.
MaxRuns == 2

\* Number of rendering threads of the older kind (backend_gs.py) one
\* behaviour may start.
MaxGsRuns == 1

\* Number of rendering threads one behaviour may start where progress is
\* checked.
MaxLiveRuns == 1

\* Number of backend objects one behaviour may construct.
MaxBackends == 2

\* Largest page count of a sample document.
MaxPages == 2

\* Depth of nested display_file() calls (calls issued from inside the
\* event loop that wait_variable() runs).
MaxDepth == 1

\* The same depth, and the number of rendering threads, where calls of
\* display_file() nested in the wait of erase() are checked: the largest
\* of the bounds on either.
MaxNesting == 2

MaxNestedRuns == 3

(* ------------------------------ inputs -------------------------------- *)

None == "None"

\* A pages argument: None, an int or a sequence of ints.
NoPages == [kind |-> "none", v |-> <<>>]
IntPages(n) == [kind |-> "int", v |-> <<n>>]
SeqPages(s) == [kind |-> "seq", v |-> s]

\* A pages argument that is a string, as the sequence of its characters.
TextPages(s) == [kind |-> "text", v |-> s]

\* Sample paths handed to display_file().
Paths ==
    {"doc.pdf", "doc.ps", "gone.pdf", "anim.gif", "note.txt", "pic.png",
     "scan.tiff", "page.xps"}

\* os.path.splitext(path)[1].lower()
Ext(path) ==
    CASE path = "doc.pdf"  -> ".pdf"
      [] path = "gone.pdf" -> ".pdf"
      [] path = "doc.ps"   -> ".ps"
      [] path = "anim.gif" -> ".gif"
      [] path = "note.txt" -> ".txt"
      [] path = "pic.png"  -> ".png"
      [] path = "scan.tiff" -> ".tiff"
      [] path = "page.xps" -> ".xps"
      [] path = "render.pdf" -> ".pdf"
      [] OTHER             -> ""

\* os.path.isfile(path)
IsFile(path) == path # "gone.pdf"

\* Number of pages the engine reports for the document.
DocPages(path) == MaxPages

\* The display_file(path, pages) calls the application makes.
Requests ==
    { [path |-> "doc.pdf",  pages |-> NoPages],
      [path |-> "doc.ps",   pages |-> SeqPages(<<MaxPages + 1, MaxPages>>)],
      [path |-> "gone.pdf", pages |-> IntPages(1)],
      [path |-> "note.txt", pages |-> NoPages] }

\* Outcome of one call to the engine through check_output():
\* it returns, it cannot be launched (OSError), or it exits nonzero
\* (subprocess.CalledProcessError).
EngineOutcomes == {"ok", "OSError", "CalledProcessError"}

BACKENDS_BY_EXTENSION == {".gif", ".pdf", ".ps", ".tif", ".tiff"}

builtin_image_extensions ==
    {".bmp", ".ico", ".jpe", ".jpg", ".jpeg", ".pbm", ".pcx", ".pgm",
     ".png", ".pnm", ".ppm", ".tga", ".xbm"}

builtin_text_extensions == {".txt"}

(* ------------------------------- state -------------------------------- *)

VARIABLES
    viewer,     \* the DocViewer's fields
    polls,      \* pending after(timeout, _process_queue) callbacks
    stack,      \* display_file() calls in progress, innermost last
    nRuns,      \* rendering threads started so far
    threads,    \* threads[r]: the fields and position of rendering thread r
    queues,     \* queues[q]: the items in queue.Queue object q
    cancelers,  \* cancelers[c]: whether threading.Event object c is set
    disk,       \* disk[r]: the temporary directory made by thread r exists
    history,    \* what was put on and taken from each queue, in order
    obs,        \* obs[r]: what has been observed of thread r
    backends,   \* backends[b]: the fields and position of backend object b
    tempfiles,  \* the files tempfile.mkstemp() made: those on disk, and
                \* how many were made
    resolver,   \* one call of _parse_page_list taken alone: its pages
                \* argument, the page count, and how it ended
    call        \* one use of the backends package taken alone: the
                \* function called, its arguments, and how it ended

vars == <<viewer, polls, stack, nRuns, threads, queues, cancelers, disk,
          history, obs, backends, tempfiles, resolver, call>>

\* The state of the backend objects and of the calls of _parse_page_list
\* and of the backends package taken alone, which the widget and the
\* rendering threads of rendering.py and backend_gs.py leave alone.
objs == <<backends, tempfiles, resolver, call>>

Runs == 1..MaxNestedRuns

(* ------------------------------ events -------------------------------- *)

\* The items a rendering thread puts on its queue: None, a BackendError,
\* the data of a rendered page.
DoneItem(r) == [type |-> "Done", run |-> r, page |-> 0, msg |-> "-"]
ErrorItem(r, m) == [type |-> "Error", run |-> r, page |-> 0, msg |-> m]
PageDataItem(r, p) == [type |-> "PageData", run |-> r, page |-> p, msg |-> "-"]

(* ------------------------- page list resolver ------------------------- *)

\* The range that leaves out its upper end: range(a, b).
RangeExclusive(a, b) ==
    IF a >= b THEN <<>> ELSE [i \in 1..(b - a) |-> a + i - 1]

\* range(a, b + 1)
Range(a, b) == IF a > b THEN <<>> ELSE [i \in 1..(b - a + 1) |-> a + i - 1]

\* The characters of a pages string are one-character strings; "sup2" is
\* the character SUPERSCRIPT TWO (U+00B2).
Decimals == <<"0", "1", "2", "3", "4", "5", "6", "7", "8", "9">>

DecimalChars == {Decimals[i] : i \in DOMAIN Decimals}

\* The characters c for which c.isdigit() holds: the decimal digits and
\* the other characters of numeric type Digit.
DigitChars == DecimalChars \cup {"sup2"}

\* The characters str.strip() removes.
Whitespace == {" "}

\* The value of a decimal digit.
DigitValue(c) == CHOOSE i \in 0..9 : Decimals[i + 1] = c

RECURSIVE Str(_)
\* str(n) for n >= 0
Str(n) ==
    IF n < 10 THEN <<Decimals[n + 1]>>
    ELSE Str(n \div 10) \o <<Decimals[(n % 10) + 1]>>

\* int(s) does not raise ValueError: s is a nonempty run of decimals
\* (signs, underscores and inner whitespace are not among the characters)
IntOk(s) == s # <<>> /\ \A i \in DOMAIN s : s[i] \in DecimalChars

RECURSIVE IntOf(_)
\* int(s) where it does not raise
IntOf(s) ==
    IF s = <<>> THEN 0
    ELSE 10 * IntOf(SubSeq(s, 1, Len(s) - 1)) + DigitValue(s[Len(s)])

\* s.isdigit()
IsDigit(s) == s # <<>> /\ \A i \in DOMAIN s : s[i] \in DigitChars

RECURSIVE LStrip(_)
LStrip(s) ==
    IF s # <<>> /\ Head(s) \in Whitespace THEN LStrip(Tail(s)) ELSE s

RECURSIVE RStrip(_)
RStrip(s) ==
    IF s # <<>> /\ s[Len(s)] \in Whitespace
    THEN RStrip(SubSeq(s, 1, Len(s) - 1)) ELSE s

\* s.strip()
Strip(s) == RStrip(LStrip(s))

\* c.lower() for a character
LowerChar(c) ==
    CASE c = "E" -> "e"
      [] c = "N" -> "n"
      [] c = "D" -> "d"
      [] c = "F" -> "f"
      [] c = "G" -> "g"
      [] c = "I" -> "i"
      [] c = "P" -> "p"
      [] c = "S" -> "s"
      [] c = "T" -> "t"
      [] c = "X" -> "x"
      [] OTHER   -> c

\* s.lower()
Lower(s) == [i \in DOMAIN s |-> LowerChar(s[i])]

RECURSIVE Replace(_, _, _)
\* s.replace(old, new) for a nonempty old: the occurrences of old, found
\* from the left without overlap, become new
Replace(s, old, new) ==
    IF Len(s) < Len(old) THEN s
    ELSE IF SubSeq(s, 1, Len(old)) = old
         THEN new \o Replace(SubSeq(s, Len(old) + 1, Len(s)), old, new)
         ELSE <<Head(s)>> \o Replace(Tail(s), old, new)

RECURSIVE Split(_, _)
\* s.split(sep) for a one-character sep: the pieces between the
\* separators, empty ones included
Split(s, sep) ==
    IF \A i \in DOMAIN s : s[i] # sep THEN <<s>>
    ELSE LET k == CHOOSE i \in DOMAIN s :
                     s[i] = sep /\ \A j \in 1..(i - 1) : s[j] # sep
         IN  <<SubSeq(s, 1, k - 1)>> \o Split(SubSeq(s, k + 1, Len(s)), sep)

\* The clean-up of the string without the replacement of "end".
NormalizeKeepsEnd(s, pc) == Replace(Lower(Strip(s)), <<" ">>, <<>>)

\* pages.strip().lower().replace(" ", "").replace("end", str(pc))
Normalize(s, pc) ==
    Replace(Replace(Lower(Strip(s)), <<" ">>, <<>>),
            <<"e", "n", "d">>, Str(pc))

\* The item where a range written from the higher page to the lower one
\* is expanded all the same, from its lower end up.
ParseItemEitherWay(item) ==
    IF IsDigit(item)
    THEN IF IntOk(item) THEN [raised |-> FALSE, pages |-> <<IntOf(item)>>]
         ELSE [raised |-> TRUE, pages |-> <<>>]
    ELSE IF \E i \in DOMAIN item : item[i] = "-"
    THEN LET parts == Split(item, "-")
         IN  IF Len(parts) = 2 /\ IntOk(parts[1]) /\ IntOk(parts[2])
             THEN [raised |-> FALSE,
                   pages |-> IF IntOf(parts[1]) <= IntOf(parts[2])
                             THEN Range(IntOf(parts[1]), IntOf(parts[2]))
                             ELSE Range(IntOf(parts[2]), IntOf(parts[1]))]
             ELSE [raised |-> FALSE, pages |-> <<>>]
    ELSE [raised |-> FALSE, pages |-> <<>>]

\* What one item of the comma-separated list adds to display_pages, and
\* whether a ValueError leaves the loop: int(item) of an item that
\* isdigit() accepts is outside the try, the range is inside it.
ParseItem(item) ==
    IF IsDigit(item)
    THEN IF IntOk(item) THEN [raised |-> FALSE, pages |-> <<IntOf(item)>>]
         ELSE [raised |-> TRUE, pages |-> <<>>]
    ELSE IF \E i \in DOMAIN item : item[i] = "-"
    THEN LET parts == Split(item, "-")
         IN  IF Len(parts) = 2 /\ IntOk(parts[1]) /\ IntOk(parts[2])
             THEN [raised |-> FALSE,
                   pages |-> Range(IntOf(parts[1]), IntOf(parts[2]))]
             ELSE [raised |-> FALSE, pages |-> <<>>]
    ELSE [raised |-> FALSE, pages |-> <<>>]

RECURSIVE ParseItems(_)
\* The for loop over pages.split(","): display_pages, and whether an
\* exception left the loop
ParseItems(items) ==
    IF items = <<>> THEN [raised |-> FALSE, pages |-> <<>>]
    ELSE LET first == ParseItem(Head(items))
             rest  == ParseItems(Tail(items))
         IN  IF first.raised THEN first
             ELSE [raised |-> rest.raised,
                   pages |-> IF rest.raised THEN <<>>
                             ELSE first.pages \o rest.pages]

\* The list display_pages a string of pages is interpreted as.
ParseText(s, pc) == ParseItems(Split(Normalize(s, pc), ","))

\* GhostscriptThread._parse_page_list raises, given the page count pc
ParseRaises(pages, pc) ==
    pages.kind = "text" /\ ParseText(pages.v, pc).raised

RECURSIVE Filter(_, _)
\* filter(lambda page: 1 <= page <= pc, display_pages)
Filter(s, pc) ==
    IF s = <<>> THEN <<>>
    ELSE IF 1 <= Head(s) /\ Head(s) <= pc
         THEN <<Head(s)>> \o Filter(Tail(s), pc)
         ELSE Filter(Tail(s), pc)

\* The list filtered and then put in ascending order.
ParsePageListSorted(pages, pc) ==
    LET display_pages ==
            CASE pages.kind = "none" -> Range(1, pc)
              [] pages.kind = "text" -> ParseText(pages.v, pc).pages
              [] OTHER -> pages.v
    IN  SortSeq(Filter(display_pages, pc), LAMBDA a, b : a < b)

\* The list as the pages argument gives it, with no page filtered out.
ParsePageListUnfiltered(pages, pc) ==
    CASE pages.kind = "none" -> Range(1, pc)
      [] pages.kind = "text" -> ParseText(pages.v, pc).pages
      [] OTHER -> pages.v

\* The list filtered against one page more than the document has.
ParsePageListPastEnd(pages, pc) ==
    LET display_pages ==
            CASE pages.kind = "none" -> Range(1, pc)
              [] pages.kind = "text" -> ParseText(pages.v, pc).pages
              [] OTHER -> pages.v
    IN  Filter(display_pages, pc + 1)

\* GhostscriptThread._parse_page_list where it returns, given the page
\* count pc
ParsePageList(pages, pc) ==
    LET display_pages ==
            CASE pages.kind = "none" -> Range(1, pc)
              [] pages.kind = "text" -> ParseText(pages.v, pc).pages
              [] OTHER -> pages.v
    IN  Filter(display_pages, pc)

\* No call of _parse_page_list taken alone.
NoCall == [pages |-> NoPages, pc |-> 0, state |-> "-", display_pages |-> <<>>]

(* ------------------------------ the queue ----------------------------- *)

\* Put as a stack would: the item goes in front of the waiting ones.
PutFront(q, item) == <<item>> \o q

\* queue.Queue.put(item) on the items of a queue
Put(q, item) == Append(q, item)

\* the item queue.Queue.get_nowait() returns
GetNowait(q) == Head(q)

\* the queue after get_nowait()
AfterGet(q) == Tail(q)

(* ----------------------------- the widget ----------------------------- *)

\* DocViewer.__init__
InitViewer ==
    [ display_path        |-> None,
      display_pages       |-> NoPages,
      page_count          |-> 1,
      rendered_page_count |-> 0,
      rendering           |-> FALSE,
      rendered_pages      |-> <<>>,
      queue               |-> 0,
      canceler            |-> 0,
      message             |-> None ]

\* DocViewer.erase, once any wait for the rendering thread is over
Erase(v) ==
    [v EXCEPT !.rendered_pages = <<>>,
              !.message = None,
              !.display_path = None,
              !.display_pages = NoPages,
              !.page_count = 1,
              !.rendered_page_count = 0]

\* DocViewer.display_text, called while nothing is being rendered
DisplayText(v, message) ==
    [Erase(v) EXCEPT !.message = message, !.rendered_page_count = 1]

\* DocViewer._add_page_to_canvas
AddPageToCanvas(v, item) ==
    [v EXCEPT !.rendered_pages = Append(@, item),
              !.rendered_page_count = @ + 1]

\* The handling of an item where an error is only displayed: the page
\* count display_text() leaves is not set back to zero.
HandleItemKeepsCount(v, item) ==
    CASE item.type = "Done" -> [v EXCEPT !.rendering = FALSE]
      [] item.type \in {"DocumentStarted", "PageStarted"} -> v
      [] item.type = "PageCount" -> [v EXCEPT !.page_count = item.page]
      [] item.type = "Error" ->
            DisplayText([v EXCEPT !.rendering = FALSE], item.msg)
      [] OTHER -> AddPageToCanvas(v, item)

\* DocViewer._process_queue: what it does with the item it pulled
HandleItem(v, item) ==
    CASE item.type = "Done" -> [v EXCEPT !.rendering = FALSE]
      [] item.type \in {"DocumentStarted", "PageStarted"} -> v
      [] item.type = "PageCount" -> [v EXCEPT !.page_count = item.page]
      [] item.type = "Error" ->
            [DisplayText([v EXCEPT !.rendering = FALSE], item.msg)
                EXCEPT !.rendered_page_count = 0]
      [] OTHER -> AddPageToCanvas(v, item)

\* The end of _process_queue where the queue and the canceler are kept.
KeepQueue(v) == v

\* DocViewer._process_queue: the end, where the queue and the canceler are
\* dropped once rendering is off
DropQueue(v) ==
    IF v.rendering THEN v ELSE [v EXCEPT !.queue = 0, !.canceler = 0]

\* Tk runs its event loop: at top level, or inside wait_variable() until
\* the watched variable has been written.
EventLoop ==
    IF stack = <<>> THEN TRUE
    ELSE /\ stack[Len(stack)].pc = "wait_variable"
         /\ ~stack[Len(stack)].done

\* A write of the rendering variable fires the trace of every pending
\* wait_variable(self._rendering).
Written(stk) ==
    [i \in DOMAIN stk |->
        IF stk[i].pc = "wait_variable" THEN [stk[i] EXCEPT !.done = TRUE]
        ELSE stk[i]]

\* One queue, made for the first rendering thread and used again by
\* every later one.
SharedQueue == IF nRuns = 0 THEN nRuns + 1 ELSE threads[nRuns].queue

\* The queue.Queue() made for a new rendering thread.
NewQueue == nRuns + 1

\* The threading.Event() made for a new rendering thread.
NewCanceler == nRuns + 1

\* GhostscriptThread.__init__ and start()
NewThread(path, pages, q, c) ==
    [pc |-> "run", path |-> path, pages |-> pages, queue |-> q,
     canceler |-> c, gs |-> None, display_pages |-> <<>>, temp_dir |-> FALSE]

\* A thread object that does not exist yet.
NoThread ==
    [pc |-> "-", path |-> None, pages |-> NoPages, queue |-> 0,
     canceler |-> 0, gs |-> None, display_pages |-> <<>>, temp_dir |-> FALSE]

\* DocViewer._process_queue. first: it is the call made by
\* _start_rendering_thread, after which display_file saves path and pages
\* and returns to stk; otherwise it is an after() callback.
ProcessQueue(first, path, pages, stk) ==
    LET q     == viewer.queue
        empty == q = 0 \/ queues[q] = <<>>
        item  == GetNowait(queues[q])
        v1    == IF empty THEN viewer ELSE HandleItem(viewer, item)
        wrote == ~empty /\ item.type \in {"Done", "Error"}
        v2    == IF q = 0 THEN viewer ELSE DropQueue(v1)
        again == IF q # 0 /\ v1.rendering THEN 1 ELSE 0
    IN  /\ viewer' = IF first
                     THEN [v2 EXCEPT !.display_path = path,
                                     !.display_pages = pages]
                     ELSE v2
        /\ polls' = (IF first THEN polls ELSE polls - 1) + again
        /\ stack' = IF wrote THEN Written(stk) ELSE stk
        /\ IF empty
           THEN UNCHANGED <<queues, history>>
           ELSE /\ queues' = [queues EXCEPT ![q] = AfterGet(@)]
                /\ history' = [history EXCEPT !.got[q] =
                                  Append(@, [item |-> item, latest |-> nRuns])]
        /\ UNCHANGED <<objs, nRuns, threads, cancelers, disk, obs>>

\* Nothing observed of a thread yet.
NoObs ==
    [put |-> <<>>, raised |-> 0, where |-> "-", escaped |-> FALSE,
     resolved |-> <<>>, late |-> 0, passed |-> 0, stopped |-> FALSE]

\* Thread r has put its last item (all that is left of run() is the
\* removal of the temporary directory, or nothing) and the widget does not
\* hold its queue: nothing reads the queue, the canceler or the attributes
\* of the thread any more.
Garbage(r) ==
    /\ threads[r].pc \in {"rmtree", "end"}
    /\ viewer.queue # threads[r].queue

\* What is kept of such a thread: where it is, whether its temporary
\* directory is still to be removed, and which queue and canceler were
\* made for it.
Collected(t) ==
    [NoThread EXCEPT !.pc = t.pc, !.temp_dir = t.temp_dir,
                     !.queue = t.queue, !.canceler = t.canceler]

\* DocViewer._start_rendering_thread up to rt.start(), on the erased
\* viewer v; the call of _process_queue that ends it is the next step of
\* the frame pushed here. The objects of earlier threads that are garbage
\* by now are collected, and what was observed of them is dropped.
StartRenderingThread(v, path, pages, stk) ==
    LET r == nRuns + 1
        gone == {g \in 1..nRuns : Garbage(g)}
        goneQ == {threads[g].queue : g \in gone}
    IN  /\ nRuns < MaxNestedRuns
        /\ nRuns' = r
        /\ viewer' = [v EXCEPT !.rendering = TRUE,
                               !.queue = NewQueue,
                               !.canceler = NewCanceler]
        /\ threads' = [x \in Runs |->
                         IF x = r
                         THEN NewThread(path, pages, NewQueue, NewCanceler)
                         ELSE IF x \in gone THEN Collected(threads[x])
                         ELSE threads[x]]
        /\ queues' = [q \in Runs |->
                        IF q \in goneQ THEN <<>> ELSE queues[q]]
        /\ obs' = [x \in Runs |-> IF x \in gone THEN NoObs ELSE obs[x]]
        /\ history' = [put |-> [q \in Runs |->
                                  IF q \in goneQ THEN <<>>
                                  ELSE history.put[q]],
                       got |-> [q \in Runs |->
                                  IF q \in goneQ THEN <<>>
                                  ELSE history.got[q]]]
        /\ stack' = Append(Written(stk),
                           [pc |-> "_process_queue", path |-> path,
                            pages |-> pages, done |-> FALSE])
        /\ UNCHANGED <<objs, polls, cancelers, disk>>

\* The page that _render_image adds for an image PIL has opened.
ImageItem == [type |-> "PageData", run |-> 0, page |-> 1, msg |-> "-"]

\* DocViewer._render_image and _render_text on the erased viewer v, and
\* the message shown for an unknown extension: done in the caller's thread.
RenderBuiltin(v, path, pages, stk) ==
    /\ \E opened \in BOOLEAN :
          LET shown ==
                 IF Ext(path) \in builtin_image_extensions
                 THEN IF opened THEN AddPageToCanvas(v, ImageItem)
                      ELSE DisplayText(v, "exception")
                 ELSE IF Ext(path) \in builtin_text_extensions
                 THEN IF opened THEN DisplayText(v, "text")
                      ELSE DisplayText(v, "exception")
                 ELSE DisplayText(v, "no backend")
          IN  viewer' = [shown EXCEPT !.display_path = path,
                                      !.display_pages = pages]
    /\ stack' = stk
    /\ UNCHANGED <<objs, polls, nRuns, threads, queues, cancelers, disk,
                   history, obs>>

\* The branch on the extension where the built-in image formats go to a
\* rendering thread as well.
RenderImageInThread(path, pages, stk) ==
    IF Ext(path) \in BACKENDS_BY_EXTENSION \cup builtin_image_extensions
    THEN StartRenderingThread(Erase(viewer), path, pages, stk)
    ELSE RenderBuiltin(Erase(viewer), path, pages, stk)

\* DocViewer.display_file after erase() has waited, if it had to: the rest
\* of erase(), then the branch on the extension.
Render(path, pages, stk) ==
    IF Ext(path) \in BACKENDS_BY_EXTENSION
    THEN StartRenderingThread(Erase(viewer), path, pages, stk)
    ELSE RenderBuiltin(Erase(viewer), path, pages, stk)

\* A flag that every call flips, in place of one that can only be set.
ToggleCanceler(c) ==
    /\ cancelers' = [cancelers EXCEPT ![c] = ~@]
    /\ UNCHANGED obs

\* threading.Event.set() on canceler c: the threads that hold it see it.
SetCanceler(c) ==
    /\ cancelers' = [cancelers EXCEPT ![c] = TRUE]
    /\ UNCHANGED obs

\* A cancel that, besides setting the canceler, puts a None on the queue
\* to end the run.
CancelRenderingPutsNone ==
    /\ EventLoop
    /\ IF viewer.canceler # 0
       THEN /\ SetCanceler(viewer.canceler)
            /\ queues' = [queues EXCEPT ![viewer.queue] = Put(@, DoneItem(0))]
       ELSE UNCHANGED <<cancelers, obs, queues>>
    /\ UNCHANGED <<objs, viewer, polls, stack, nRuns, threads, disk, history>>

\* DocViewer.cancel_rendering, called by the application
CancelRendering ==
    /\ EventLoop
    /\ IF viewer.canceler # 0
       THEN SetCanceler(viewer.canceler)
       ELSE UNCHANGED <<cancelers, obs>>
    /\ UNCHANGED <<objs, viewer, polls, stack, nRuns, threads, queues, disk,
                   history>>

\* DocViewer.display_file(path, pages), called by the application: with a
\* rendering in progress erase() cancels it and waits in wait_variable().
DisplayFile(path, pages) ==
    /\ EventLoop
    /\ Len(stack) < MaxNesting
    /\ IF viewer.rendering
       THEN /\ IF viewer.canceler # 0
               THEN SetCanceler(viewer.canceler)
               ELSE UNCHANGED <<cancelers, obs>>
            /\ stack' = Append(stack, [pc |-> "wait_variable", path |-> path,
                                       pages |-> pages, done |-> FALSE])
            /\ UNCHANGED <<objs, viewer, polls, nRuns, threads, queues, disk,
                           history>>
       ELSE Render(path, pages, stack)

\* wait_variable() returns in the innermost display_file() that waits.
WaitReturns ==
    /\ stack # <<>>
    /\ LET top == stack[Len(stack)]
       IN  /\ top.pc = "wait_variable"
           /\ top.done
           /\ Render(top.path, top.pages, SubSeq(stack, 1, Len(stack) - 1))

\* The call of _process_queue at the end of _start_rendering_thread, and
\* the end of display_file.
FirstProcessQueue ==
    /\ stack # <<>>
    /\ LET top == stack[Len(stack)]
       IN  /\ top.pc = "_process_queue"
           /\ ProcessQueue(TRUE, top.path, top.pages,
                           SubSeq(stack, 1, Len(stack) - 1))

\* An after(timeout, self._process_queue) callback runs.
Poll ==
    /\ EventLoop
    /\ polls > 0
    /\ ProcessQueue(FALSE, None, NoPages, stack)

(* ----------------- the rendering thread (rendering.py) ---------------- *)

\* GhostscriptThread._push_error: the message of the BackendError it puts,
\* for a message string or for the exception caught
PushError(r, err) ==
    ErrorItem(r, CASE err \in {"OSError", "ValueError"} -> "exception"
                   [] err = "CalledProcessError" -> "gs output"
                   [] OTHER -> err)

\* One step of thread r: it becomes t, puts the items (none or one) on its
\* queue, and an exception raised in the step is counted. obs[r] records
\* the items put, the exceptions raised and where the last one was raised,
\* the resolved page list, the page data put while the canceler was set
\* (late), the times the loop went on to render with the canceler set
\* (passed) and whether the loop was left with pages remaining (stopped).
Step(r, t, items, raised) ==
    LET q    == threads[r].queue
        was  == threads[r]
        set  == cancelers[was.canceler]
        over == t.pc \in {"rmtree", "end"} /\ viewer.queue # q
    IN  IF over
        THEN \* nothing will take what the thread puts from here on
             /\ threads' = [threads EXCEPT ![r] = Collected(t)]
             /\ queues' = [queues EXCEPT ![q] = <<>>]
             /\ history' = [history EXCEPT !.put[q] = <<>>, !.got[q] = <<>>]
             /\ obs' = [obs EXCEPT ![r] = NoObs]
             /\ UNCHANGED <<objs, viewer, polls, stack, nRuns, cancelers>>
        ELSE
        /\ threads' = [threads EXCEPT ![r] = t]
        /\ IF items = <<>>
           THEN UNCHANGED <<queues, history>>
           ELSE /\ queues' = [queues EXCEPT ![q] = Put(@, items[1])]
                /\ history' = [history EXCEPT !.put[q] = Append(@, items[1])]
        /\ obs' = [obs EXCEPT
                     ![r].put = @ \o items,
                     ![r].raised = @ + raised,
                     ![r].where = IF raised > 0 THEN was.pc ELSE @,
                     ![r].resolved = IF was.pc = "page_count" /\ t.pc = "is_set"
                                     THEN t.display_pages ELSE @,
                     ![r].late = IF /\ items # <<>>
                                    /\ items[1].type = "PageData"
                                    /\ set
                                 THEN @ + 1 ELSE @,
                     ![r].passed = IF /\ was.pc = "is_set"
                                      /\ t.pc = "render_page"
                                      /\ set
                                   THEN @ + 1 ELSE @,
                     ![r].stopped = IF /\ was.pc = "is_set"
                                       /\ t.pc # "render_page"
                                       /\ was.display_pages # <<>>
                                    THEN TRUE ELSE @]
        /\ UNCHANGED <<objs, viewer, polls, stack, nRuns, cancelers>>

\* Where the thread goes when _render_pdf returns: the finally clause of
\* _render_ps if it was called from there, else the end of run().
Return(t) == IF t.temp_dir THEN "rmtree" ELSE "end"

\* run() without the test that the file exists: the backend is made for
\* whatever path was given.
RunWithoutFileTest(r) ==
    LET t == threads[r]
    IN  /\ t.pc = "run"
        /\ IF Ext(t.path) = ".pdf"
           THEN /\ Step(r, [t EXCEPT !.pc = "page_count", !.gs = t.path],
                        <<>>, 0)
                /\ UNCHANGED disk
           ELSE IF Ext(t.path) = ".ps"
           THEN /\ Step(r, [t EXCEPT !.pc = "render_to_pdf",
                                     !.temp_dir = TRUE], <<>>, 0)
                /\ disk' = [disk EXCEPT ![r] = TRUE]
           ELSE /\ Step(r, [t EXCEPT !.pc = "end"],
                        <<PushError(r, "unrecognized")>>, 0)
                /\ UNCHANGED disk

\* GhostscriptThread.run up to the first call of the engine
Run(r) ==
    LET t == threads[r]
    IN  /\ t.pc = "run"
        /\ IF ~IsFile(t.path)
           THEN /\ Step(r, [t EXCEPT !.pc = "end"],
                        <<PushError(r, "no file")>>, 0)
                /\ UNCHANGED disk
           ELSE IF Ext(t.path) = ".pdf"
           THEN /\ Step(r, [t EXCEPT !.pc = "page_count", !.gs = t.path],
                        <<>>, 0)
                /\ UNCHANGED disk
           ELSE IF Ext(t.path) = ".ps"
           THEN \E made \in BOOLEAN :
                  IF made
                  THEN /\ Step(r, [t EXCEPT !.pc = "render_to_pdf",
                                            !.temp_dir = TRUE], <<>>, 0)
                       /\ disk' = [disk EXCEPT ![r] = TRUE]
                  ELSE \* tempfile.mkdtemp() raises OSError
                       /\ Step(r, [t EXCEPT !.pc = "end"],
                               <<PushError(r, "gs not found")>>, 1)
                       /\ UNCHANGED disk
           ELSE /\ Step(r, [t EXCEPT !.pc = "end"],
                        <<PushError(r, "unrecognized")>>, 0)
                /\ UNCHANGED disk

\* The conversion with a handler that drops the exception: no error is
\* pushed.
RenderToPdfSilent(r) ==
    LET t == threads[r]
    IN  /\ t.pc = "render_to_pdf"
        /\ \E out \in EngineOutcomes :
              IF out = "ok"
              THEN Step(r, [t EXCEPT !.pc = "page_count",
                                     !.gs = "render.pdf"], <<>>, 0)
              ELSE Step(r, [t EXCEPT !.pc = "rmtree"], <<>>, 1)
        /\ UNCHANGED disk

\* GhostscriptThread._render_ps: gs.render_to_pdf(pdf_output_path)
RenderToPdf(r) ==
    LET t == threads[r]
    IN  /\ t.pc = "render_to_pdf"
        /\ \E out \in EngineOutcomes :
              IF out = "ok"
              THEN Step(r, [t EXCEPT !.pc = "page_count",
                                     !.gs = "render.pdf"], <<>>, 0)
              ELSE Step(r, [t EXCEPT !.pc = "rmtree"],
                        <<PushError(r, out)>>, 1)
        /\ UNCHANGED disk

\* The page count asked of a backend bound to the file of the request
\* instead of the converted file: a PostScript file is refused.
ParsePagesOfRequest(r) ==
    LET t == threads[r]
    IN  /\ t.pc = "page_count"
        /\ IF Ext(t.path) # ".pdf"
           THEN Step(r, [t EXCEPT !.pc = Return(t)],
                     <<PushError(r, "only pdf")>>, 1)
           ELSE \E out \in EngineOutcomes :
                  IF out # "ok"
                  THEN Step(r, [t EXCEPT !.pc = Return(t)],
                            <<PushError(r, out)>>, 1)
                  ELSE IF ParseRaises(t.pages, DocPages(t.path))
                  THEN Step(r, [t EXCEPT !.pc = Return(t)],
                            <<PushError(r, "ValueError")>>, 1)
                  ELSE Step(r, [t EXCEPT !.pc = "is_set",
                                         !.display_pages =
                                            ParsePageList(t.pages,
                                                          DocPages(t.path))],
                            <<>>, 0)
        /\ UNCHANGED disk

\* GhostscriptThread._parse_page_list: self.gs.page_count() and the list
ParsePages(r) ==
    LET t == threads[r]
    IN  /\ t.pc = "page_count"
        /\ IF Ext(t.gs) # ".pdf"
           THEN Step(r, [t EXCEPT !.pc = Return(t)],
                     <<PushError(r, "only pdf")>>, 1)
           ELSE \E out \in EngineOutcomes :
                  IF out # "ok"
                  THEN Step(r, [t EXCEPT !.pc = Return(t)],
                            <<PushError(r, out)>>, 1)
                  ELSE IF ParseRaises(t.pages, DocPages(t.gs))
                  THEN Step(r, [t EXCEPT !.pc = Return(t)],
                            <<PushError(r, "ValueError")>>, 1)
                  ELSE Step(r, [t EXCEPT !.pc = "is_set",
                                         !.display_pages =
                                            ParsePageList(t.pages,
                                                          DocPages(t.gs))],
                            <<>>, 0)
        /\ UNCHANGED disk

\* The loop head without the test of the canceler.
IsSetIgnoresCanceler(r) ==
    LET t == threads[r]
    IN  /\ t.pc = "is_set"
        /\ IF t.display_pages = <<>>
           THEN Step(r, [t EXCEPT !.pc = "put_none"], <<>>, 0)
           ELSE Step(r, [t EXCEPT !.pc = "render_page"], <<>>, 0)
        /\ UNCHANGED disk

\* The loop head where a set canceler makes the thread return at once,
\* without the final put of None.
IsSetThenReturn(r) ==
    LET t == threads[r]
    IN  /\ t.pc = "is_set"
        /\ IF t.display_pages = <<>>
           THEN Step(r, [t EXCEPT !.pc = "put_none"], <<>>, 0)
           ELSE IF cancelers[t.canceler]
           THEN Step(r, [t EXCEPT !.pc = Return(t)], <<>>, 0)
           ELSE Step(r, [t EXCEPT !.pc = "render_page"], <<>>, 0)
        /\ UNCHANGED disk

\* GhostscriptThread._render_pages: the head of the for loop and the test
\* of the canceler
IsSet(r) ==
    LET t == threads[r]
    IN  /\ t.pc = "is_set"
        /\ IF t.display_pages = <<>> \/ cancelers[t.canceler]
           THEN Step(r, [t EXCEPT !.pc = "put_none"], <<>>, 0)
           ELSE Step(r, [t EXCEPT !.pc = "render_page"], <<>>, 0)
        /\ UNCHANGED disk

\* The render step where the error is pushed inside the loop and the
\* thread still goes on to the final put of None.
RenderPageThenDone(r) ==
    LET t == threads[r]
    IN  /\ t.pc = "render_page"
        /\ \E out \in EngineOutcomes :
              IF out = "ok"
              THEN Step(r, [t EXCEPT !.pc = "is_set",
                                     !.display_pages = Tail(@)],
                        <<PageDataItem(r, Head(t.display_pages))>>, 0)
              ELSE Step(r, [t EXCEPT !.pc = "put_none"],
                        <<PushError(r, out)>>, 1)
        /\ UNCHANGED disk

\* GhostscriptThread._render_pages: self.gs.render_page(page) returns or
\* raises, and the page data is put on the queue
RenderPage(r) ==
    LET t == threads[r]
    IN  /\ t.pc = "render_page"
        /\ \E out \in EngineOutcomes :
              IF out = "ok"
              THEN Step(r, [t EXCEPT !.pc = "is_set",
                                     !.display_pages = Tail(@)],
                        <<PageDataItem(r, Head(t.display_pages))>>, 0)
              ELSE Step(r, [t EXCEPT !.pc = Return(t)],
                        <<PushError(r, out)>>, 1)
        /\ UNCHANGED disk

\* The end of _render_pdf where None is put only if the run was not
\* cancelled.
PutNoneUnlessSet(r) ==
    LET t == threads[r]
    IN  /\ t.pc = "put_none"
        /\ IF cancelers[t.canceler]
           THEN Step(r, [t EXCEPT !.pc = Return(t)], <<>>, 0)
           ELSE Step(r, [t EXCEPT !.pc = Return(t)], <<DoneItem(r)>>, 0)
        /\ UNCHANGED disk

\* GhostscriptThread._render_pdf: self.queue.put(None)
PutNone(r) ==
    LET t == threads[r]
    IN  /\ t.pc = "put_none"
        /\ Step(r, [t EXCEPT !.pc = Return(t)], <<DoneItem(r)>>, 0)
        /\ UNCHANGED disk

\* GhostscriptThread._render_ps: shutil.rmtree(temp_dir) in the finally
Rmtree(r) ==
    LET t == threads[r]
    IN  /\ t.pc = "rmtree"
        /\ Step(r, [t EXCEPT !.pc = "end"], <<>>, 0)
        /\ disk' = [disk EXCEPT ![r] = FALSE]

(* ---------------- the older rendering thread (backend_gs.py) --------- *)

\* GhostscriptThread.run of backend_gs.py up to the first call of the
\* engine; nothing in it catches what tempfile.mkdtemp() raises
GsRun(r) ==
    LET t == threads[r]
    IN  /\ t.pc = "run"
        /\ IF ~IsFile(t.path)
           THEN /\ Step(r, [t EXCEPT !.pc = "end"],
                        <<PushError(r, "no file")>>, 0)
                /\ UNCHANGED disk
           ELSE IF Ext(t.path) = ".pdf"
           THEN /\ Step(r, [t EXCEPT !.pc = "page_count", !.gs = t.path],
                        <<>>, 0)
                /\ UNCHANGED disk
           ELSE IF Ext(t.path) = ".ps"
           THEN \E made \in BOOLEAN :
                  IF made
                  THEN /\ Step(r, [t EXCEPT !.pc = "render_to_pdf",
                                            !.gs = "render.pdf",
                                            !.temp_dir = TRUE], <<>>, 0)
                       /\ disk' = [disk EXCEPT ![r] = TRUE]
                  ELSE /\ threads' = [threads EXCEPT ![r].pc = "end"]
                       /\ obs' = [obs EXCEPT ![r].raised = @ + 1,
                                             ![r].escaped = TRUE]
                       /\ UNCHANGED <<objs, viewer, polls, stack, nRuns, queues,
                                      cancelers, disk, history>>
           ELSE /\ Step(r, [t EXCEPT !.pc = "end"],
                        <<PushError(r, "unrecognized")>>, 0)
                /\ UNCHANGED disk

\* GhostscriptThread._convert_to_pdf of backend_gs.py: _call_ghostscript
\* pushes an error for an OSError and returns None to its caller
GsConvertToPdf(r) ==
    LET t == threads[r]
    IN  /\ t.pc = "render_to_pdf"
        /\ \E out \in EngineOutcomes :
              CASE out = "ok" ->
                     Step(r, [t EXCEPT !.pc = "page_count"], <<>>, 0)
                [] out = "OSError" ->
                     Step(r, [t EXCEPT !.pc = "page_count"],
                          <<PushError(r, "gs not found")>>, 1)
                [] OTHER ->
                     Step(r, [t EXCEPT !.pc = "rmtree"],
                          <<PushError(r, out)>>, 1)
        /\ UNCHANGED disk

\* GhostscriptThread._page_count and _parse_page_list of backend_gs.py
GsPageCount(r) ==
    LET t == threads[r]
    IN  /\ t.pc = "page_count"
        /\ \E out \in EngineOutcomes :
              CASE out = "ok" ->
                     Step(r, [t EXCEPT !.pc = "is_set",
                                       !.display_pages =
                                          ParsePageList(t.pages,
                                                        DocPages(t.path))],
                          <<>>, 0)
                [] out = "OSError" ->
                     Step(r, [t EXCEPT !.pc = "int_none"],
                          <<PushError(r, "gs not found")>>, 1)
                [] OTHER ->
                     Step(r, [t EXCEPT !.pc = Return(t)],
                          <<PushError(r, out)>>, 1)
        /\ UNCHANGED disk

\* _page_count of backend_gs.py: int(None) raises TypeError after
\* _call_ghostscript returned None, and _render_pdf pushes that error
GsIntNone(r) ==
    LET t == threads[r]
    IN  /\ t.pc = "int_none"
        /\ Step(r, [t EXCEPT !.pc = Return(t)],
                <<PushError(r, "exception")>>, 1)
        /\ UNCHANGED disk

\* GhostscriptThread._render_pages of backend_gs.py: the engine call
GsRenderPage(r) ==
    LET t == threads[r]
    IN  /\ t.pc = "render_page"
        /\ \E out \in EngineOutcomes :
              CASE out = "ok" ->
                     Step(r, [t EXCEPT !.pc = "is_set",
                                       !.display_pages = Tail(@)],
                          <<PageDataItem(r, Head(t.display_pages))>>, 0)
                [] out = "OSError" ->
                     Step(r, [t EXCEPT !.pc = "put_page_none"],
                          <<PushError(r, "gs not found")>>, 1)
                [] OTHER ->
                     Step(r, [t EXCEPT !.pc = Return(t)],
                          <<PushError(r, out)>>, 1)
        /\ UNCHANGED disk

\* _render_pages of backend_gs.py: self.queue.put(page_data) with the None
\* that _call_ghostscript returned after an OSError
GsPutPageNone(r) ==
    LET t == threads[r]
    IN  /\ t.pc = "put_page_none"
        /\ Step(r, [t EXCEPT !.pc = "is_set", !.display_pages = Tail(@)],
                <<DoneItem(r)>>, 0)
        /\ UNCHANGED disk

(* -------------------- backend objects (backends/) ------------------- *)

BackendIds == 1..MaxBackends

\* A backend object that does not exist yet.
NoBackend == [pc |-> "-", temp_files |-> <<>>, pdf_path |-> 0, i |-> 0]

RECURSIVE ListRemove(_, _)
\* list.remove(x): the list without the first occurrence of x
ListRemove(s, x) ==
    IF s = <<>> THEN <<>>
    ELSE IF Head(s) = x THEN Tail(s)
    ELSE <<Head(s)>> \o ListRemove(Tail(s), x)

\* GhostXPSBackend.__init__ up to the call of GhostXPS: Backend.__init__,
\* the check for the executable, tempfile.mkstemp()
XpsInit(b) ==
    /\ backends[b].pc = "-"
    /\ \E gxps_exe \in BOOLEAN :
          IF gxps_exe
          THEN LET pdf_path == tempfiles.made + 1
               IN  /\ tempfiles' = [disk |-> tempfiles.disk \cup {pdf_path},
                                    made |-> pdf_path]
                   /\ backends' = [backends EXCEPT
                                     ![b] = [pc |-> "check_output",
                                             temp_files |-> <<>>,
                                             pdf_path |-> pdf_path,
                                             i |-> 0]]
          ELSE /\ backends' = [backends EXCEPT ![b].pc = "raised"]
               /\ UNCHANGED tempfiles
    /\ UNCHANGED <<call, resolver, viewer, polls, stack, nRuns, threads,
                   queues, cancelers, disk, history, obs>>

\* GhostXPSBackend.__init__: check_output(gxps_args) returns or raises;
\* then the path is recorded and the Ghostscript backend is made
XpsConvert(b) ==
    /\ backends[b].pc = "check_output"
    /\ \E out \in EngineOutcomes :
          IF out = "ok"
          THEN backends' = [backends EXCEPT
                              ![b].pc = "ready",
                              ![b].temp_files =
                                  Append(@, backends[b].pdf_path)]
          ELSE backends' = [backends EXCEPT ![b].pc = "raised"]
    /\ UNCHANGED <<call, resolver, viewer, polls, stack, nRuns, threads,
                   queues, cancelers, disk, history, obs, tempfiles>>

\* The object is destroyed, after its use or after its constructor
\* raised: Backend.__del__ starts to iterate over temp_files.
Del(b) ==
    /\ backends[b].pc \in {"ready", "raised"}
    /\ backends' = [backends EXCEPT ![b].pc = "__del__", ![b].i = 0]
    /\ UNCHANGED <<call, resolver, viewer, polls, stack, nRuns, threads,
                   queues, cancelers, disk, history, obs, tempfiles>>

\* Backend.__del__: one round of "for path in self.temp_files", whose
\* iterator advances an index into the list the body shrinks
DelNext(b) ==
    LET o == backends[b]
    IN  /\ o.pc = "__del__"
        /\ IF o.i < Len(o.temp_files)
           THEN LET path == o.temp_files[o.i + 1]
                IN  IF path \in tempfiles.disk
                    THEN /\ tempfiles' = [tempfiles EXCEPT !.disk = @ \ {path}]
                         /\ backends' = [backends EXCEPT
                                       ![b].temp_files = ListRemove(@, path),
                                       ![b].i = @ + 1]
                    ELSE \* os.remove raises, which ends __del__
                         /\ backends' = [backends EXCEPT ![b].pc = "dead"]
                         /\ UNCHANGED tempfiles
           ELSE /\ backends' = [backends EXCEPT ![b].pc = "dead"]
                /\ UNCHANGED tempfiles
        /\ UNCHANGED <<call, resolver, viewer, polls, stack, nRuns, threads,
                       queues, cancelers, disk, history, obs>>

(* ------------------------ the backends package ------------------------ *)

\* os.path.splitext(p): the extension starts at the last dot of the last
\* component of the path, unless only dots come before it there
SplitExt(p) ==
    LET Last(c) == IF \E i \in DOMAIN p : p[i] = c
                   THEN CHOOSE i \in DOMAIN p :
                           p[i] = c /\ \A j \in DOMAIN p : p[j] = c => j <= i
                   ELSE 0
        sepIndex == Last("/")
        dotIndex == Last(".")
    IN  IF /\ dotIndex > sepIndex
           /\ \E j \in (sepIndex + 1)..(dotIndex - 1) : p[j] # "."
        THEN <<SubSeq(p, 1, dotIndex - 1), SubSeq(p, dotIndex, Len(p))>>
        ELSE <<p, <<>>>>

\* Backends by file extension
BackendsByExtension ==
    (<<".", "g", "i", "f">> :> "PILMultiframeBackend") @@
    (<<".", "p", "d", "f">> :> "GhostscriptBackend") @@
    (<<".", "p", "s">> :> "GhostscriptBackend") @@
    (<<".", "t", "i", "f">> :> "PILMultiframeBackend") @@
    (<<".", "t", "i", "f", "f">> :> "PILMultiframeBackend")

\* Sample paths of input files: documents of the formats of the sample
\* data with extensions in either case, one with a space in its name, a
\* file without extension, a hidden file, a file in a directory with a
\* dot, and files (b) that do not hold what their extension says.
FileNames ==
    { <<"a", ".", "p", "d", "f">>, <<"a", ".", "P", "D", "F">>,
      <<"a", ".", "P", "d", "f">>, <<"b", ".", "p", "d", "f">>,
      <<"a", " ", "c", ".", "p", "d", "f">>,
      <<"a", ".", "p", "s">>, <<"a", ".", "P", "S">>,
      <<"a", ".", "g", "i", "f">>, <<"a", ".", "G", "I", "F">>,
      <<"b", ".", "g", "i", "f">>,
      <<"a", ".", "t", "i", "f">>, <<"a", ".", "t", "i", "f", "f">>,
      <<"a", ".", "x", "p", "s">>, <<"a", ".", "t", "x", "t">>,
      <<"a", "p", "d", "f">>, <<".", "p", "d", "f">>,
      <<"a", ".", "p", "s", "/", "a">> }

\* What the file at the path holds.
FileHolds(path) ==
    LET ext == Lower(SplitExt(path)[2])
    IN  IF path[1] = "b" THEN "junk"
        ELSE CASE ext = <<".", "p", "d", "f">> -> "pdf"
               [] ext = <<".", "p", "s">> -> "ps"
               [] ext \in {<<".", "g", "i", "f">>, <<".", "t", "i", "f">>,
                           <<".", "t", "i", "f", "f">>} -> "image"
               [] ext = <<".", "x", "p", "s">> -> "xps"
               [] OTHER -> "text"

\* What subprocess.CalledProcessError holds of a call of the engine: the
\* command line, the exit status, and what the engine wrote to standard
\* output and to standard error. Here: of no call.
NoFailure == [cmd |-> <<>>, returncode |-> 0, output |-> <<>>, stderr |-> <<>>]

\* The message of the BackendError _push_error makes: its text, and the
\* command line and the return code it names. Here: no message.
NoMessage == [text |-> <<>>, cmdline |-> <<>>, returncode |-> 0]

\* No use of the backends package taken alone.
NoUse ==
    [pc |-> "-", fn |-> "-", input_path |-> <<>>, page_num |-> 0,
     cls |-> None, err |-> "-", msg |-> "-", value |-> 0,
     failure |-> NoFailure, message |-> NoMessage]

\* The call in progress raises the exception err with the message msg.
Raise(err, msg) ==
    call' = [call EXCEPT !.pc = "raised", !.err = err, !.msg = msg]

\* The ways the engine exits with a nonzero status: with or without
\* output on standard output and on standard error.
EngineExits ==
    [returncode : {1}, output : {<<>>, <<"o", "\n">>},
     stderr : {<<>>, <<"e", "\n">>}]

\* The Ghostscript command line of page_count() and of render_page().
GsArgs(fn, path) ==
    IF fn = "page_count"
    THEN << <<"g", "s">>, <<"-", "c">>,
            <<"(">> \o path \o <<")", " ", "q", "u", "i", "t">> >>
    ELSE << <<"g", "s">>, <<"-", "q">>, path >>

\* check_output(gs_args) when the engine exits with a nonzero status:
\* subprocess.check_output raises CalledProcessError
RaiseCalledProcessError(gs_args) ==
    \E exit \in EngineExits :
       call' = [call EXCEPT
                  !.pc = "raised",
                  !.err = "CalledProcessError",
                  !.msg = "exception",
                  !.failure = [cmd |-> gs_args,
                               returncode |-> exit.returncode,
                               output |-> exit.output,
                               stderr |-> exit.stderr]]

\* backends.AutoBackend with the extension taken as it is written.
AutoBackendAsWritten ==
    LET ext == SplitExt(call.input_path)[2]
    IN  /\ call.pc = "AutoBackend"
        /\ IF ext \in DOMAIN BackendsByExtension
           THEN LET backend_cls == BackendsByExtension[ext]
                IN  IF backend_cls = "PILMultiframeBackend"
                    THEN \E pil \in BOOLEAN :
                            IF ~pil
                            THEN Raise("BackendError", "no PIL")
                            ELSE IF FileHolds(call.input_path) # "image"
                            THEN Raise("OSError", "exception")
                            ELSE call' = [call EXCEPT !.pc = "bound",
                                                      !.cls = backend_cls]
                    ELSE call' = [call EXCEPT !.pc = "bound",
                                              !.cls = backend_cls]
           ELSE Raise("BackendError", "no backend")
        /\ UNCHANGED <<viewer, polls, stack, nRuns, threads, queues,
                       cancelers, disk, history, obs, backends, tempfiles,
                       resolver>>

\* backends.AutoBackend: the class is looked up by the lower-cased
\* extension and its constructor is called; PILMultiframeBackend.__init__
\* opens the image, GhostscriptBackend has the constructor of Backend
AutoBackend ==
    LET ext == Lower(SplitExt(call.input_path)[2])
    IN  /\ call.pc = "AutoBackend"
        /\ IF ext \in DOMAIN BackendsByExtension
           THEN LET backend_cls == BackendsByExtension[ext]
                IN  IF backend_cls = "PILMultiframeBackend"
                    THEN \E pil \in BOOLEAN :
                            IF ~pil
                            THEN Raise("BackendError", "no PIL")
                            ELSE IF FileHolds(call.input_path) # "image"
                            THEN Raise("OSError", "exception")
                            ELSE call' = [call EXCEPT !.pc = "bound",
                                                      !.cls = backend_cls]
                    ELSE call' = [call EXCEPT !.pc = "bound",
                                              !.cls = backend_cls]
           ELSE Raise("BackendError", "no backend")
        /\ UNCHANGED <<viewer, polls, stack, nRuns, threads, queues,
                       cancelers, disk, history, obs, backends, tempfiles,
                       resolver>>

\* Number of pages of the document at the path.
Pages(path) == MaxPages

\* GhostscriptBackend.page_count and PILMultiframeBackend.page_count
BackendPageCount ==
    /\ call.pc = "bound"
    /\ call.fn = "page_count"
    /\ IF call.cls = "GhostscriptBackend"
       THEN IF Lower(SplitExt(call.input_path)[2]) # <<".", "p", "d", "f">>
            THEN Raise("BackendError", "only pdf")
            ELSE \E out \in EngineOutcomes :
                    IF out = "CalledProcessError"
                    THEN RaiseCalledProcessError(
                            GsArgs(call.fn, call.input_path))
                    ELSE IF out # "ok"
                    THEN Raise(out, "exception")
                    ELSE IF FileHolds(call.input_path) # "pdf"
                    THEN \* int() of an output that is not a number
                         Raise("ValueError", "exception")
                    ELSE call' = [call EXCEPT
                                    !.pc = "returned",
                                    !.value = Pages(call.input_path)]
       ELSE call' = [call EXCEPT !.pc = "returned",
                                 !.value = Pages(call.input_path)]
    /\ UNCHANGED <<viewer, polls, stack, nRuns, threads, queues, cancelers,
                   disk, history, obs, backends, tempfiles, resolver>>

\* GhostscriptBackend.render_page and PILMultiframeBackend.render_page;
\* the value returned is the page held by the image data, 0 for the output
\* of an engine that exited with status 0 without rendering a page
BackendRenderPage ==
    LET in_file == /\ 1 <= call.page_num
                   /\ call.page_num <= Pages(call.input_path)
    IN  /\ call.pc = "bound"
        /\ call.fn = "render_page"
        /\ IF call.cls = "GhostscriptBackend"
           THEN IF Lower(SplitExt(call.input_path)[2])
                      # <<".", "p", "d", "f">>
                THEN Raise("BackendError", "only pdf")
                ELSE \E out \in EngineOutcomes :
                        IF out = "CalledProcessError"
                        THEN RaiseCalledProcessError(
                                GsArgs(call.fn, call.input_path))
                        ELSE IF out # "ok"
                        THEN Raise(out, "exception")
                        ELSE call' = [call EXCEPT
                                        !.pc = "returned",
                                        !.value =
                                           IF /\ in_file
                                              /\ FileHolds(call.input_path)
                                                    = "pdf"
                                           THEN call.page_num ELSE 0]
           ELSE \* self.im.seek(page_num - 1)
                IF in_file
                THEN call' = [call EXCEPT !.pc = "returned",
                                          !.value = call.page_num]
                ELSE Raise("EOFError", "exception")
        /\ UNCHANGED <<viewer, polls, stack, nRuns, threads, queues,
                       cancelers, disk, history, obs, backends, tempfiles,
                       resolver>>

\* _push_error: an argument with a space is put between double quotes
Quote(arg) ==
    IF \E i \in DOMAIN arg : arg[i] = " "
    THEN <<"\"">> \o arg \o <<"\"">>
    ELSE arg

\* GhostscriptThread._push_error(err) for the exception the call raised:
\* for a CalledProcessError with output, the output without its last
\* character, the command line and the return code; otherwise the
\* exception formatted as a string, which for a CalledProcessError names
\* the command and the exit status
ErrorMessage ==
    IF call.err = "CalledProcessError" /\ call.failure.output # <<>>
    THEN [text |-> SubSeq(call.failure.output, 1,
                          Len(call.failure.output) - 1),
          cmdline |-> [i \in DOMAIN call.failure.cmd |->
                          Quote(call.failure.cmd[i])],
          returncode |-> call.failure.returncode]
    ELSE IF call.err = "CalledProcessError"
    THEN [text |-> <<>>, cmdline |-> call.failure.cmd,
          returncode |-> call.failure.returncode]
    ELSE [NoMessage EXCEPT !.text = <<call.msg>>]

\* GhostscriptThread._render_pdf: the exception of the backend is caught
\* and pushed on the queue as a BackendError
PushErrorOfCall ==
    /\ call.pc = "raised"
    /\ call.cls # None
    /\ call' = [call EXCEPT !.pc = "pushed", !.message = ErrorMessage]
    /\ UNCHANGED <<viewer, polls, stack, nRuns, threads, queues, cancelers,
                   disk, history, obs, backends, tempfiles, resolver>>

(* ------------------------ executable discovery ------------------------ *)

\* os.path.basename(p): what follows the last separator
Basename(p) ==
    IF \E i \in DOMAIN p : p[i] = "/"
    THEN LET k == CHOOSE i \in DOMAIN p :
                     p[i] = "/" /\ \A j \in DOMAIN p : p[j] = "/" => j <= i
         IN  SubSeq(p, k + 1, Len(p))
    ELSE p

\* find_executable: the file name tried for a basename; on Microsoft
\* Windows ".exe" is appended to a name without extension
ExeName(basename, platform) ==
    LET name == Basename(basename)
    IN  IF platform = "win32" /\ SplitExt(name)[2] = <<>>
        THEN name \o <<".", "e", "x", "e">>
        ELSE name

\* Directories of the sample environment, and its $PATH.
Dirs == {"d1", "d2"}

Path == <<"d2", "d1">>

\* What a discovery gives back: a file in a directory, a bare name, or
\* None.
Found(dir, name) == [none |-> FALSE, dir |-> dir, name |-> name]

NotFound == [none |-> TRUE, dir |-> "", name |-> <<>>]

\* os.path.isfile(os.path.join(dir, name)), given the files that exist
IsFileIn(files, dir, name) == <<dir, name>> \in files

\* The candidates in the order the two nested loops try them: by
\* directory first, then by basename within each directory.
Candidates(names, dirs) ==
    [k \in 1..(Len(dirs) * Len(names)) |->
        <<dirs[((k - 1) \div Len(names)) + 1],
          names[((k - 1) % Len(names)) + 1]>>]

\* The first candidate that is a file, or None.
FirstFile(cands, files) ==
    IF \E k \in DOMAIN cands : IsFileIn(files, cands[k][1], cands[k][2])
    THEN LET k == CHOOSE i \in DOMAIN cands :
                     /\ IsFileIn(files, cands[i][1], cands[i][2])
                     /\ \A j \in 1..(i - 1) :
                           ~IsFileIn(files, cands[j][1], cands[j][2])
         IN  Found(cands[k][1], cands[k][2])
    ELSE NotFound

\* util.find_executable(basenames, search_dirs)
FindExecutable ==
    /\ call.pc = "called"
    /\ call.fn = "find_executable"
    /\ LET search_dirs == IF call.search_dirs = <<>> THEN Path
                          ELSE call.search_dirs
           names == [i \in DOMAIN call.basenames |->
                        ExeName(call.basenames[i], call.platform)]
       IN  call' = [call EXCEPT
                      !.pc = "returned",
                      !.value = FirstFile(Candidates(names, search_dirs),
                                          call.files)]
    /\ UNCHANGED <<viewer, polls, stack, nRuns, threads, queues, cancelers,
                   disk, history, obs, backends, tempfiles, resolver>>

\* The search for the Ghostscript executable when backends.ghostscript is
\* imported: on Microsoft Windows the directories are walked for the
\* names, and the last name is taken if none is found; elsewhere the name
\* is "gs" and nothing is looked for. Each directory is taken without
\* subdirectories.
GsExe ==
    /\ call.pc = "called"
    /\ call.fn = "gs_exe"
    /\ LET found == FirstFile(Candidates(call.basenames, call.search_dirs),
                              call.files)
       IN  call' = [call EXCEPT
                      !.pc = "returned",
                      !.value =
                         IF call.platform = "win32"
                         THEN IF found.none
                              THEN Found("", call.basenames[
                                                Len(call.basenames)])
                              ELSE found
                         ELSE Found("", <<"g", "s">>)]
    /\ UNCHANGED <<viewer, polls, stack, nRuns, threads, queues, cancelers,
                   disk, history, obs, backends, tempfiles, resolver>>

\* GhostscriptBackend.gs_version(): the executable found is run with
\* --version; only OSError is caught
GsVersion ==
    /\ call.pc = "returned"
    /\ call.fn = "gs_exe"
    /\ \E out \in EngineOutcomes :
          call' = [call EXCEPT
                     !.pc = IF out = "CalledProcessError" THEN "raised"
                            ELSE "queried",
                     !.engine = out,
                     !.err = IF out = "CalledProcessError" THEN out ELSE "-",
                     !.version = IF out = "ok" THEN "gs_ver" ELSE None]
    /\ UNCHANGED <<viewer, polls, stack, nRuns, threads, queues, cancelers,
                   disk, history, obs, backends, tempfiles, resolver>>

(* --------------------------- specification ---------------------------- *)

Init ==
    /\ viewer = InitViewer
    /\ polls = 0
    /\ stack = <<>>
    /\ nRuns = 0
    /\ threads = [r \in Runs |-> NoThread]
    /\ queues = [q \in Runs |-> <<>>]
    /\ cancelers = [c \in Runs |-> FALSE]
    /\ disk = [r \in Runs |-> FALSE]
    /\ history = [put |-> [q \in Runs |-> <<>>], got |-> [q \in Runs |-> <<>>]]
    /\ backends = [b \in BackendIds |-> NoBackend]
    /\ tempfiles = [disk |-> {}, made |-> 0]
    /\ obs = [r \in Runs |-> NoObs]
    /\ resolver = NoCall
    /\ call = NoUse

\* The bound on the threads of one behaviour: a call that would start one
\* more is not made.
CanStart(path) == Ext(path) \in BACKENDS_BY_EXTENSION => nRuns < MaxRuns

Next ==
    \/ \E req \in Requests :
          /\ Len(stack) < MaxDepth
          /\ ~viewer.rendering => CanStart(req.path)
          /\ DisplayFile(req.path, req.pages)
    \/ /\ stack # <<>> => CanStart(stack[Len(stack)].path)
       /\ WaitReturns
    \/ FirstProcessQueue
    \/ Poll
    \/ CancelRendering
    \/ \E r \in Runs : Run(r)
    \/ \E r \in Runs : RenderToPdf(r)
    \/ \E r \in Runs : ParsePages(r)
    \/ \E r \in Runs : IsSet(r)
    \/ \E r \in Runs : RenderPage(r)
    \/ \E r \in Runs : PutNone(r)
    \/ \E r \in Runs : Rmtree(r)

Spec == Init /\ [][Next]_vars

\* The widget with the rendering thread of backend_gs.py; the loop head,
\* the final put and the removal of the directory are the same code.
NextGs ==
    \/ \E req \in Requests :
          /\ Len(stack) < MaxDepth
          /\ Ext(req.path) \in BACKENDS_BY_EXTENSION => nRuns < MaxGsRuns
          /\ DisplayFile(req.path, req.pages)
    \/ WaitReturns
    \/ FirstProcessQueue
    \/ Poll
    \/ CancelRendering
    \/ \E r \in Runs : GsRun(r)
    \/ \E r \in Runs : GsConvertToPdf(r)
    \/ \E r \in Runs : GsPageCount(r)
    \/ \E r \in Runs : GsIntNone(r)
    \/ \E r \in Runs : IsSet(r)
    \/ \E r \in Runs : GsRenderPage(r)
    \/ \E r \in Runs : GsPutPageNone(r)
    \/ \E r \in Runs : PutNone(r)
    \/ \E r \in Runs : Rmtree(r)

SpecGs == Init /\ [][NextGs]_vars

\* The backend objects alone.
NextBackend ==
    \/ \E b \in BackendIds : XpsInit(b)
    \/ \E b \in BackendIds : XpsConvert(b)
    \/ \E b \in BackendIds : Del(b)
    \/ \E b \in BackendIds : DelNext(b)

SpecBackend == Init /\ [][NextBackend]_vars

(* ------------------------------ properties ---------------------------- *)

\* Number of items of a type in a sequence of items.
Count(s, type) == Cardinality({i \in DOMAIN s : s[i].type = type})

IsPageData(e) == e.type = "PageData"

\* The page numbers of the page data in a sequence of items, in order.
PagesOf(s) ==
    LET d == SelectSeq(s, IsPageData) IN [i \in DOMAIN d |-> d[i].page]

\* The items of a sequence of taken entries.
ItemsOf(g) == [i \in DOMAIN g |-> g[i].item]

\* Pages rendered by thread r before the page the loop stands at.
PagesBefore(r) == Len(obs[r].resolved) - Len(threads[r].display_pages)

\* Thread r has left _render_pdf.
Returned(r) == threads[r].pc \in {"rmtree", "end"}

\* C1: in every run the items put on the queue are ordered DocumentStarted,
\* then PageCount, then the page events: every PageStarted and every
\* PageData comes after a DocumentStarted followed by a PageCount, and
\* every PageCount comes after a DocumentStarted.
C1_DocumentStartedThenPageCount ==
    \A r \in Runs :
        LET s == obs[r].put
        IN  \A i \in DOMAIN s :
               /\ s[i].type \in {"PageStarted", "PageData"} =>
                     \E j, k \in 1..(i - 1) :
                        /\ j < k
                        /\ s[j].type = "DocumentStarted"
                        /\ s[k].type = "PageCount"
               /\ s[i].type = "PageCount" =>
                     \E j \in 1..(i - 1) : s[j].type = "DocumentStarted"

C3_AtMostOneError ==
    \A r \in Runs :
        LET s == obs[r].put
        IN  /\ Count(s, "Error") <= 1
            /\ \A i, j \in DOMAIN s :
                  i < j /\ s[i].type = "Error" =>
                      s[j].type \notin {"Done", "PageData"}

\* C4: an exception raised while the backend is made (the conversion
\* included), in page_count() or in render_page() becomes exactly one
\* Error on the queue, the last item of the run, and the thread goes on to
\* its end: nothing escapes run(), and no run in which something was
\* raised is without its Error.
C4_FailureBecomesOneError ==
    \A r \in Runs :
        LET s == obs[r].put
        IN  /\ ~obs[r].escaped
            /\ obs[r].raised <= 1
            /\ obs[r].raised = 1 =>
                  /\ Count(s, "Error") = 1
                  /\ s[Len(s)].type = "Error"
                  /\ Returned(r)

\* C4 witness: the conversion of a Postscript file failed, the thread has
\* put its one Error and has ended.
C4_ConversionFailed ==
    \E r \in Runs :
        /\ obs[r].where = "render_to_pdf"
        /\ obs[r].raised = 1
        /\ threads[r].pc = "end"
        /\ Count(obs[r].put, "Error") = 1

C6_FailureOnPageJ ==
    \A r \in Runs :
        LET s == obs[r].put
        IN  obs[r].where = "render_page" =>
               /\ PagesOf(s) = SubSeq(obs[r].resolved, 1, PagesBefore(r))
               /\ Count(s, "PageStarted") = PagesBefore(r)
               /\ Count(s, "Error") = 1
               /\ s[Len(s)].type = "Error"
               /\ Count(s, "Done") = 0

\* C7: cancellation is seen at page boundaries only: the loop never goes
\* on to render a page with the canceler set, a render call under way when
\* it is set runs on and its page data is put, and so at most one page
\* data is put after the canceler is set.
C7_CancelAtPageBoundary ==
    \A r \in Runs :
        /\ obs[r].passed = 0
        /\ obs[r].late <= 1

\* C7 witness: the canceler was set during a render call, whose page data
\* was put afterwards.
C7_LatePage == \E r \in Runs : obs[r].late = 1

\* C8: after a run has ended, or a backend object is gone, by any path,
\* the failure of the conversion inside the constructor included, no
\* temporary file or directory made for it remains on disk.
C8_NoTempFileRemains ==
    /\ \A r \in Runs : threads[r].pc = "end" => ~disk[r]
    /\ \A b \in BackendIds :
          backends[b].pc = "dead" =>
              backends[b].pdf_path \notin tempfiles.disk

\* C9: the widget takes the items of a queue in the order the thread put
\* them: what it has taken, followed by what is still in the queue, is
\* what was put, with nothing reordered, repeated or lost.
C9_TakenInOrderPut ==
    \A q \in Runs : ItemsOf(history.got[q]) \o queues[q] = history.put[q]

\* C9 witness: the widget has taken two items of a queue and a third
\* waits in it.
C9_TwoTaken ==
    \E q \in Runs : Len(history.got[q]) >= 2 /\ queues[q] # <<>>

\* C10: every rendering thread gets a queue and a canceler of its own;
\* every item the widget takes was put by the thread started last, on the
\* queue made for it, and every page on the canvas was either rendered by
\* that thread or by the widget itself.
C10_FreshQueueAndCanceler ==
    /\ \A r1, r2 \in 1..nRuns :
          r1 # r2 => /\ threads[r1].queue # threads[r2].queue
                     /\ threads[r1].canceler # threads[r2].canceler
    /\ \A q \in Runs :
          \A i \in DOMAIN history.got[q] :
             LET e == history.got[q][i]
             IN  /\ e.item.run = e.latest
                 /\ threads[e.latest].queue = q
    /\ \A i \in DOMAIN viewer.rendered_pages :
          viewer.rendered_pages[i].run \in {0, nRuns}

\* C10 witness: the widget has taken an item from the queue of a second
\* rendering thread.
C10_SecondRunTaken ==
    /\ nRuns = 2
    /\ history.got[threads[2].queue] # <<>>

(* ------------------------------ C11 ---------------------------------- *)

\* C11: the flag of a canceler changes only from false to true: no step
\* of the widget or of a thread resets a flag that is set, so the thread
\* and the widget, which hold the same Event, see it set for the rest of
\* the run.
C11_CancelerNeverReset ==
    [][\A c \in Runs : cancelers[c] => cancelers'[c]]_vars

\* C11 witness: the canceler of the first run was set, that run is over
\* and a second run has been started with a canceler of its own, not set.
C11_SetFlagOutlivesRun ==
    /\ nRuns >= 2
    /\ threads[1].pc = "end"
    /\ cancelers[threads[1].canceler]
    /\ threads[2].canceler # threads[1].canceler
    /\ ~cancelers[threads[2].canceler]

(* ------------------------------ C12 ---------------------------------- *)

\* C12: the widget holds a canceler exactly while rendering is on, and a
\* call of cancel_rendering made when it holds none (no run is active) or
\* when its canceler is already set (a second call during the run) leaves
\* every variable as it was, so what follows it is what would have
\* followed without it.
C12_CancelNoOpAndIdempotent ==
    /\ [](viewer.rendering <=> viewer.canceler # 0)
    /\ [][(/\ CancelRendering
           /\ \/ viewer.canceler = 0
              \/ cancelers[viewer.canceler])
          => UNCHANGED vars]_vars

\* C12 witness: a run is active, its thread is rendering a page, the
\* canceler has been set by a first call and a second call can be made.
C12_SecondCancelPossible ==
    /\ EventLoop
    /\ viewer.rendering
    /\ viewer.canceler # 0
    /\ cancelers[viewer.canceler]
    /\ \E r \in Runs : /\ threads[r].canceler = viewer.canceler
                       /\ threads[r].pc = "render_page"

(* ------------------------------ C13 ---------------------------------- *)

\* The widget takes an Error from queue q in this step.
TakesError(q) ==
    /\ Len(history.got'[q]) = Len(history.got[q]) + 1
    /\ history.got'[q][Len(history.got'[q])].item.type = "Error"

\* C13: the call of _process_queue that takes an Error leaves
\* rendered_page_count at 0 and rendering off, whatever page data of the
\* run was taken and counted before.
C13_ErrorResetsCount ==
    [][\A q \in Runs :
          TakesError(q) => /\ viewer'.rendered_page_count = 0
                           /\ ~viewer'.rendering]_vars

\* C13 witness: the widget took the data of a page and then the Error of
\* the same run; it shows the message and counts no page.
C13_ErrorAfterPage ==
    \E q \in Runs :
        LET g == history.got[q]
        IN  /\ Len(g) >= 2
            /\ g[Len(g)].item.type = "Error"
            /\ g[Len(g) - 1].item.type = "PageData"
            /\ viewer.message = g[Len(g)].item.msg
            /\ viewer.rendered_page_count = 0
            /\ ~viewer.rendering

(* ------------------------------ C14 ---------------------------------- *)

\* One step of rendering thread r, whichever it is.
ThreadStep(r) ==
    \/ Run(r)
    \/ RenderToPdf(r)
    \/ ParsePages(r)
    \/ IsSet(r)
    \/ RenderPage(r)
    \/ PutNone(r)
    \/ Rmtree(r)

\* The widget and the rendering thread of rendering.py, with fewer threads.
NextLive ==
    \/ \E req \in Requests :
          /\ Len(stack) < MaxDepth
          /\ Ext(req.path) \in BACKENDS_BY_EXTENSION => nRuns < MaxLiveRuns
          /\ DisplayFile(req.path, req.pages)
    \/ WaitReturns
    \/ FirstProcessQueue
    \/ Poll
    \/ CancelRendering
    \/ \E r \in Runs : ThreadStep(r)

\* The scheduling the claim assumes: every engine call returns or raises
\* and a thread that can take a step takes it, and the Tk event loop runs
\* the after() callbacks and the calls pending in display_file.
SpecLive ==
    /\ Init
    /\ [][NextLive]_vars
    /\ \A r \in Runs : WF_vars(ThreadStep(r))
    /\ WF_vars(Poll)
    /\ WF_vars(FirstProcessQueue)

\* The widget is rendering and the canceler of its run has been set.
Cancelled ==
    /\ viewer.rendering
    /\ viewer.canceler # 0
    /\ cancelers[viewer.canceler]

\* Rendering is off, the widget has dropped its queue and every
\* wait_variable(rendering) of a pending erase() has been released.
Released ==
    /\ ~viewer.rendering
    /\ viewer.queue = 0
    /\ \A i \in DOMAIN stack :
          stack[i].pc = "wait_variable" => stack[i].done

\* C14: once the canceler of the run the widget is rendering has been set,
\* rendering eventually goes off, and with it every wait_variable() of an
\* erase() that cancelled and waited is released; and while rendering
\* stays off no further after() callback is scheduled.
C14_CancelledRunEnds ==
    /\ Cancelled ~> Released
    /\ [][~viewer.rendering /\ ~viewer'.rendering => polls' <= polls]_vars

\* C14 witness: display_file() cancelled a run and waited, the run has put
\* its Done, taken by the widget, and the wait has been released with no
\* callback left.
C14_WaitReleased ==
    /\ stack # <<>>
    /\ stack[Len(stack)].pc = "wait_variable"
    /\ stack[Len(stack)].done
    /\ Released
    /\ polls = 0
    /\ \E q \in Runs : /\ history.got[q] # <<>>
                       /\ history.got[q][Len(history.got[q])].item.type = "Done"
                       /\ cancelers[q]

(* ------------------------------ C15 ---------------------------------- *)

\* display_file() was called for the document of thread r with no pages
\* argument and has returned; the run was not cancelled, nothing was
\* raised in it, and the widget has taken its Done: rendering is off.
ShownInFull(r) ==
    LET g == history.got[threads[r].queue]
    IN  /\ r = nRuns
        /\ stack = <<>>
        /\ threads[r].pages = NoPages
        /\ viewer.display_path = threads[r].path
        /\ viewer.display_pages = NoPages
        /\ ~cancelers[threads[r].canceler]
        /\ obs[r].raised = 0
        /\ g # <<>>
        /\ g[Len(g)].item.type = "Done"
        /\ ~viewer.rendering

\* C15: after a run for an N-page document with no page selector, neither
\* cancelled nor failed, the widget's page_count is N and its
\* rendered_page_count equals its page_count.
C15_PageCountIsN ==
    \A r \in Runs :
        ShownInFull(r) =>
            /\ viewer.page_count = DocPages(threads[r].path)
            /\ viewer.rendered_page_count = viewer.page_count

(* --------------- _parse_page_list taken alone (C16-C20) --------------- *)

\* Longest pages string tried, in characters.
MaxLen == 3

\* The characters the pages strings tried are made of.
Alphabet == {"0", "1", "2", "-", ",", " ", "e", "n", "d", "E", "sup2"}

\* The example page list string of display_file's docstring.
ExampleText ==
    <<"1", "-", "2", ",", "5", ",", "8", ",", "1", "2", "-", "e", "n", "d">>

\* The strings tried as pages argument.
Texts ==
    UNION {[1..n -> Alphabet] : n \in 0..MaxLen}
        \cup {ExampleText, <<"a", "b", "c">>}

\* The integers tried as a page number, some of them out of range.
PageNumbers == -1..(MaxPages + 1)

\* A list of pages that is not in ascending order, names a page twice and
\* names a page some documents do not have.
ExampleList == <<2, MaxPages + 1, 1, 2>>

\* The pages arguments tried, of every kind.
Selectors ==
    {NoPages}
        \cup {IntPages(n) : n \in PageNumbers}
        \cup {SeqPages(s) : s \in UNION {[1..n -> PageNumbers] : n \in 0..2}}
        \cup {SeqPages(ExampleList)}
        \cup {TextPages(s) : s \in Texts}

\* The page counts tried: those of the sample documents, none, and the
\* count of the documents of test.py.
PageCounts == 0..MaxPages \cup {DocPages("doc.pdf"), 6}

\* _parse_page_list is called with some pages argument on a document of
\* some page count.
InitResolve ==
    /\ viewer = InitViewer
    /\ polls = 0
    /\ stack = <<>>
    /\ nRuns = 0
    /\ threads = [r \in Runs |-> NoThread]
    /\ queues = [q \in Runs |-> <<>>]
    /\ cancelers = [c \in Runs |-> FALSE]
    /\ disk = [r \in Runs |-> FALSE]
    /\ history = [put |-> [q \in Runs |-> <<>>], got |-> [q \in Runs |-> <<>>]]
    /\ backends = [b \in BackendIds |-> NoBackend]
    /\ tempfiles = [disk |-> {}, made |-> 0]
    /\ obs = [r \in Runs |-> NoObs]
    /\ call = NoUse
    /\ \E sel \in Selectors, pc \in PageCounts :
          resolver = [pages |-> sel, pc |-> pc, state |-> "called",
                      display_pages |-> <<>>]

\* GhostscriptThread._parse_page_list: the call returns the filtered list
\* or an exception leaves it
Resolve ==
    /\ resolver.state = "called"
    /\ resolver' =
          IF ParseRaises(resolver.pages, resolver.pc)
          THEN [resolver EXCEPT !.state = "raised"]
          ELSE [resolver EXCEPT
                  !.state = "returned",
                  !.display_pages = ParsePageList(resolver.pages, resolver.pc)]
    /\ UNCHANGED <<viewer, polls, stack, nRuns, threads, queues, cancelers,
                   disk, history, obs, backends, tempfiles, call>>

SpecResolve == InitResolve /\ [][Resolve]_vars

\* The call of _parse_page_list taken alone has returned.
Resolved == resolver.state = "returned"

\* C16: for every page count N >= 1, a pages argument of None resolves to
\* the pages 1, 2, ..., N in ascending order, and the call does not raise.
C16_AbsentIsAllPages ==
    (resolver.pages = NoPages /\ resolver.pc >= 1) =>
        /\ resolver.state # "raised"
        /\ Resolved =>
              resolver.display_pages = [i \in 1..resolver.pc |-> i]

\* C16 witness: None was resolved for a document of six pages.
C16_AllSixPages ==
    /\ Resolved
    /\ resolver.pages = NoPages
    /\ resolver.pc = 6
    /\ Len(resolver.display_pages) = 6

\* C17: the string "end" resolves to the last page alone, for every page
\* count N >= 1.
C17_EndIsLastPage ==
    (resolver.pages = TextPages(<<"e", "n", "d">>) /\ resolver.pc >= 1) =>
        /\ resolver.state # "raised"
        /\ Resolved => resolver.display_pages = <<resolver.pc>>

\* C17 witness: "end" was resolved for a document of six pages, to page 6.
C17_EndOfSix ==
    /\ Resolved
    /\ resolver.pages = TextPages(<<"e", "n", "d">>)
    /\ resolver.pc = 6
    /\ resolver.display_pages = <<6>>

\* C18 (as claimed): "1-2,5,8,12-end" resolves to 1, 2, 5, 6 for a
\* document of six pages.
C18_ExampleGivesLastPage ==
    (Resolved /\ resolver.pages = TextPages(ExampleText) /\ resolver.pc = 6)
        => resolver.display_pages = <<1, 2, 5, 6>>

\* C18 (amended): "1-2,5,8,12-end" resolves to 1, 2, 5 for a document of
\* six pages: 8 is dropped as out of range, and "12-end" is the range from
\* 12 to 6, which has no page in it.
C18_ExampleGivesThreePages ==
    (resolver.pages = TextPages(ExampleText) /\ resolver.pc = 6) =>
        /\ resolver.state # "raised"
        /\ Resolved => resolver.display_pages = <<1, 2, 5>>

\* C18 witness: the example string was resolved for six pages.
C18_ExampleResolved ==
    /\ Resolved
    /\ resolver.pages = TextPages(ExampleText)
    /\ resolver.pc = 6

\* A decimal integer, as a token of the comma-separated list.
BareInteger(tok) == tok # <<>> /\ \A i \in DOMAIN tok : tok[i] \in DecimalChars

\* The pages a token stands for if it is a bare integer or two integers
\* joined by one hyphen, and no page otherwise.
TokenPages(tok) ==
    LET hy == {i \in DOMAIN tok : tok[i] = "-"}
    IN  IF BareInteger(tok) THEN <<IntOf(tok)>>
        ELSE IF Cardinality(hy) = 1
        THEN LET k == CHOOSE i \in hy : TRUE
                 a == SubSeq(tok, 1, k - 1)
                 b == SubSeq(tok, k + 1, Len(tok))
             IN  IF BareInteger(a) /\ BareInteger(b)
                 THEN [i \in 1..(IntOf(b) - IntOf(a) + 1) |-> IntOf(a) + i - 1]
                 ELSE <<>>
        ELSE <<>>

RECURSIVE TokensPages(_)
\* The pages of the well-formed tokens of a list of tokens, in order.
TokensPages(toks) ==
    IF toks = <<>> THEN <<>>
    ELSE TokenPages(Head(toks)) \o TokensPages(Tail(toks))

\* C19: a string of pages never makes the call raise: "abc" resolves to
\* no page, and in any string the tokens that are neither a bare integer
\* nor two integers joined by one hyphen are dropped while the others are
\* resolved, so that no Error comes of a malformed token.
C19_MalformedTokensDropped ==
    resolver.pages.kind = "text" =>
        /\ resolver.state # "raised"
        /\ Resolved =>
              LET toks == Split(Normalize(resolver.pages.v, resolver.pc), ",")
                  in_range(page) == 1 <= page /\ page <= resolver.pc
              IN  /\ resolver.display_pages =
                        SelectSeq(TokensPages(toks), in_range)
                  /\ resolver.pages.v = <<"a", "b", "c">> =>
                        resolver.display_pages = <<>>

\* C20: for a pages argument of any kind and any page count N >= 0 the
\* call returns, and every page of the list it returns is in 1..N.
C20_ResolvedPagesInRange ==
    /\ resolver.state # "raised"
    /\ Resolved =>
          \A i \in DOMAIN resolver.display_pages :
              /\ 1 <= resolver.display_pages[i]
              /\ resolver.display_pages[i] <= resolver.pc

(* ------------------------------ C21 ---------------------------------- *)

\* Page is one of the pages of the document resolved.
InDocument(page) == 1 <= page /\ page <= resolver.pc

\* C21: a list of integers resolves to itself without its out-of-range
\* elements, in the order given and with its duplicates; the pages of a
\* string are those of its comma-separated tokens, in the order of the
\* tokens.
C21_OrderAndDuplicatesKept ==
    Resolved =>
        /\ resolver.pages.kind = "seq" =>
              resolver.display_pages = SelectSeq(resolver.pages.v, InDocument)
        /\ resolver.pages.kind = "text" =>
              resolver.display_pages =
                 SelectSeq(TokensPages(Split(Normalize(resolver.pages.v,
                                                        resolver.pc), ",")),
                           InDocument)

\* C21 witness: a list out of order with a duplicate and a page the
\* document does not have was resolved: the page is gone, the order and
\* the duplicate are kept.
C21_ExampleListResolved ==
    /\ Resolved
    /\ resolver.pages = SeqPages(ExampleList)
    /\ resolver.pc = MaxPages
    /\ resolver.display_pages = <<2, 1, 2>>

(* ------------------------------ C22 ---------------------------------- *)

\* The string is one range token: decimals, one hyphen, decimals.
IsRangeToken(s) ==
    /\ Cardinality({i \in DOMAIN s : s[i] = "-"}) = 1
    /\ \A i \in DOMAIN s : s[i] \in DecimalChars \cup {"-"}
    /\ s[1] # "-"
    /\ s[Len(s)] # "-"

\* The integer before the hyphen of a range token, and the one after it.
RangeStart(s) ==
    IntOf(SubSeq(s, 1, (CHOOSE i \in DOMAIN s : s[i] = "-") - 1))
RangeEnd(s) ==
    IntOf(SubSeq(s, (CHOOSE i \in DOMAIN s : s[i] = "-") + 1, Len(s)))

\* C22: a range token a-b resolves to the pages of the document from a to
\* b in ascending order, which is no page when a > b; it does not raise.
C22_RangeAscendingOrEmpty ==
    (resolver.pages.kind = "text" /\ IsRangeToken(resolver.pages.v)) =>
        /\ resolver.state # "raised"
        /\ Resolved =>
              LET a == RangeStart(resolver.pages.v)
                  b == RangeEnd(resolver.pages.v)
                  in_range(page) == a <= page /\ page <= b
              IN  /\ resolver.display_pages =
                        SelectSeq([i \in 1..resolver.pc |-> i], in_range)
                  /\ a > b => resolver.display_pages = <<>>

\* C22 witness: the descending range "2-1" was resolved for a document
\* that has both pages, to no page.
C22_DescendingRangeResolved ==
    /\ Resolved
    /\ resolver.pages = TextPages(<<"2", "-", "1">>)
    /\ resolver.pc >= 2
    /\ resolver.display_pages = <<>>


(* ---------------- native and converted documents --------------------- *)

\* Thread r has resolved its page list and stands in or after the loop
\* over the pages.
PastPageCount(r) ==
    \/ threads[r].pc \in {"is_set", "render_page", "put_none"}
    \/ Returned(r) /\ obs[r].resolved # <<>>

InitAlone ==
    /\ viewer = InitViewer
    /\ polls = 0
    /\ stack = <<>>
    /\ nRuns = 0
    /\ threads = [r \in Runs |-> NoThread]
    /\ queues = [q \in Runs |-> <<>>]
    /\ cancelers = [c \in Runs |-> FALSE]
    /\ disk = [r \in Runs |-> FALSE]
    /\ history = [put |-> [q \in Runs |-> <<>>], got |-> [q \in Runs |-> <<>>]]
    /\ backends = [b \in BackendIds |-> NoBackend]
    /\ tempfiles = [disk |-> {}, made |-> 0]
    /\ obs = [r \in Runs |-> NoObs]
    /\ resolver = NoCall

\* AutoBackend(input_path) is called, and then page_count() or
\* render_page(page_num) of the backend it returns.
InitUse ==
    /\ InitAlone
    /\ \E path \in FileNames, n \in PageNumbers :
          \/ call = [NoUse EXCEPT !.pc = "AutoBackend", !.fn = "page_count",
                                  !.input_path = path]
          \/ call = [NoUse EXCEPT !.pc = "AutoBackend", !.fn = "render_page",
                                  !.input_path = path, !.page_num = n]

NextUse ==
    \/ AutoBackend
    \/ BackendPageCount
    \/ BackendRenderPage
    \/ PushErrorOfCall

SpecUse == InitUse /\ [][NextUse]_vars

\* The method of the backend has returned or raised.
Ended == call.cls # None /\ call.pc \in {"returned", "raised", "pushed"}

\* The file bound to the backend holds a document the variant renders.
Supported ==
    IF call.cls = "GhostscriptBackend"
    THEN FileHolds(call.input_path) = "pdf"
    ELSE FileHolds(call.input_path) = "image"

\* C24: render_page(n) of a backend raises BackendError, and returns
\* nothing, when n is outside 1..page_count, and page_count() raises
\* BackendError when the bound file is not a document the backend
\* supports.
C24_OutOfRangeIsBackendError ==
    Ended =>
       /\ (/\ call.fn = "render_page"
           /\ Supported
           /\ call.page_num \notin 1..Pages(call.input_path))
             => call.pc # "returned" /\ call.err = "BackendError"
       /\ (call.fn = "page_count" /\ ~Supported)
             => call.pc # "returned" /\ call.err = "BackendError"


\* The sample paths whose extension is, but for the case of its letters,
\* .pdf or .ps, and those whose extension is .gif, .tif or .tiff.
GhostscriptNames ==
    { <<"a", ".", "p", "d", "f">>, <<"a", ".", "P", "D", "F">>,
      <<"a", ".", "P", "d", "f">>, <<"b", ".", "p", "d", "f">>,
      <<"a", " ", "c", ".", "p", "d", "f">>,
      <<"a", ".", "p", "s">>, <<"a", ".", "P", "S">> }

PILMultiframeNames ==
    { <<"a", ".", "g", "i", "f">>, <<"a", ".", "G", "I", "F">>,
      <<"b", ".", "g", "i", "f">>, <<"a", ".", "t", "i", "f">>,
      <<"a", ".", "t", "i", "f", "f">> }

\* AutoBackend has returned a backend or raised.
Selected == call.pc \notin {"-", "AutoBackend"}

\* C25: the backend class depends on the lower-cased extension of the path
\* alone: a path whose extension is that of a registry entry but for the
\* case of its letters gets the class of the entry, whatever the case, and
\* AutoBackend raises the error that no appropriate backend was found, and
\* constructs no backend, exactly when the lower-cased extension has no
\* entry.
C25_SelectedByLowerExtension ==
    Selected =>
       /\ call.input_path \in GhostscriptNames =>
             call.cls = "GhostscriptBackend"
       /\ call.input_path \in PILMultiframeNames =>
             \/ call.cls = "PILMultiframeBackend"
             \/ call.cls = None /\ call.pc = "raised"
                                /\ call.msg \in {"no PIL", "exception"}
       /\ call.msg = "no backend" <=>
             call.input_path \notin GhostscriptNames \cup PILMultiframeNames
       /\ call.msg = "no backend" =>
             /\ call.pc = "raised"
             /\ call.err = "BackendError"
             /\ call.cls = None
       /\ call.cls # None =>
             call.cls = BackendsByExtension[
                           Lower(SplitExt(call.input_path)[2])]

\* C25 witness: a path with the extension .PDF has got the Ghostscript
\* backend, as the path with .pdf does.
C25_UpperCaseSelected ==
    /\ call.input_path = <<"a", ".", "P", "D", "F">>
    /\ call.pc = "bound"
    /\ call.cls = "GhostscriptBackend"


(* ------------------- the formats of the test suite -------------------- *)

\* The sample files the test suite renders through a backend: GIF, PDF,
\* PostScript, TIFF and XPS.
BackendSamples == {"anim.gif", "doc.pdf", "doc.ps", "scan.tiff", "page.xps"}

\* Sample files of formats with built-in support: an image and a text.
BuiltinSamples == {"pic.png", "note.txt"}

\* The widget and the rendering thread of rendering.py, with the calls the
\* test suite makes: display_file(path) for a sample file.
NextFormats ==
    \/ \E path \in BackendSamples \cup BuiltinSamples :
          /\ Len(stack) < MaxDepth
          /\ Ext(path) \in BACKENDS_BY_EXTENSION => nRuns < MaxLiveRuns
          /\ DisplayFile(path, NoPages)
    \/ WaitReturns
    \/ FirstProcessQueue
    \/ Poll
    \/ CancelRendering
    \/ \E r \in Runs : ThreadStep(r)

SpecFormats == Init /\ [][NextFormats]_vars

\* C26: display_file on a sample file of a format the test suite renders
\* through a backend (.gif, .pdf, .ps, .tiff, .xps) finds the extension in
\* the registry and starts a rendering thread: the widget never shows the
\* message that no appropriate backend was found for it.
C26_SamplesHaveBackend ==
    viewer.display_path \in BackendSamples =>
        /\ Ext(viewer.display_path) \in BACKENDS_BY_EXTENSION
        /\ viewer.message # "no backend"
        /\ nRuns >= 1


\* C27: display_file on a file of a built-in image or text format shows it
\* before it returns, in the thread of the caller: the step that shows it
\* starts no rendering thread, makes no queue and no canceler, changes no
\* queue and no canceler, leaves rendering and the queue and canceler of
\* the widget as they were, and no rendering thread has the file.
C27_BuiltinRendersInCaller ==
    [][(/\ viewer'.display_path # viewer.display_path
        /\ viewer'.display_path \in BuiltinSamples) =>
          /\ nRuns' = nRuns
          /\ threads' = threads
          /\ queues' = queues
          /\ cancelers' = cancelers
          /\ viewer'.rendering = viewer.rendering
          /\ viewer'.queue = viewer.queue
          /\ viewer'.canceler = viewer.canceler
          /\ \A r \in Runs : threads'[r].path # viewer'.display_path
          /\ \/ viewer'.rendered_pages = <<ImageItem>>
             \/ viewer'.message # None]_vars

\* C27 witness: the image file is shown after a rendering thread had been
\* started for another file, and no other thread was started.
C27_ImageShownAfterRun ==
    /\ viewer.display_path = "pic.png"
    /\ viewer.rendered_pages = <<ImageItem>>
    /\ nRuns = 1
    /\ ~viewer.rendering


(* ------------------- executable discovery taken alone ----------------- *)

\* Longest list of basenames and of directories handed to a discovery.
MaxSearch == 2

\* The sequences over a set of at most n elements, the empty one included.
SeqsUpTo(S, n) == UNION {[1..k -> S] : k \in 0..n}

\* Basenames asked for: bare, with an extension, with a directory.
Basenames ==
    {<<"g">>, <<"h">>, <<"g", ".", "e", "x", "e">>, <<"b", "/", "g">>}

\* Names of files that can exist in a directory.
FileBasenames == {<<"g">>, <<"h">>, <<"g", ".", "e", "x", "e">>}

\* Names of the Ghostscript executable on Microsoft Windows.
GsWin64c == <<"g", "s", "w", "i", "n", "6", "4", "c", ".", "e", "x", "e">>

GsWin32c == <<"g", "s", "w", "i", "n", "3", "2", "c", ".", "e", "x", "e">>

\* The platforms sys.platform tells apart.
Platforms == {"win32", "linux"}

\* find_executable is called, or backends.ghostscript is imported, in an
\* environment with some files.
InitFind ==
    /\ InitAlone
    /\ \/ \E basenames \in SeqsUpTo(Basenames, MaxSearch) \ {<<>>},
             search_dirs \in SeqsUpTo(Dirs, MaxSearch),
             files \in SUBSET (Dirs \X FileBasenames),
             platform \in Platforms :
                call = [pc |-> "called", fn |-> "find_executable",
                        platform |-> platform,
                        basenames |-> basenames, search_dirs |-> search_dirs,
                        files |-> files, value |-> NotFound,
                        engine |-> "-", err |-> "-", version |-> None]
       \/ \E gs_names \in {<<GsWin64c, GsWin32c>>, <<GsWin32c>>},
             gs_dirs \in SeqsUpTo(Dirs, MaxSearch) \ {<<>>},
             files \in SUBSET (Dirs \X {GsWin64c, GsWin32c}),
             platform \in Platforms :
                call = [pc |-> "called", fn |-> "gs_exe",
                        platform |-> platform,
                        basenames |-> IF platform = "win32" THEN gs_names
                                      ELSE <<<<"g", "s">>>>,
                        search_dirs |-> gs_dirs,
                        files |-> files, value |-> NotFound,
                        engine |-> "-", err |-> "-", version |-> None]

NextFind ==
    \/ FindExecutable
    \/ GsExe
    \/ GsVersion

SpecFind == InitFind /\ [][NextFind]_vars

\* The directories searched: those given, or $PATH for find_executable
\* when none is given.
Searched ==
    IF call.search_dirs = <<>> /\ call.fn = "find_executable"
    THEN Path ELSE call.search_dirs

\* The file of basename j in directory i of the search exists.
Exists(i, j) ==
    IsFileIn(call.files, Searched[i],
             ExeName(call.basenames[j], call.platform))

\* C28: a discovery returns the first candidate that exists, in the order
\* of the directories and, within a directory, of the basenames, and None
\* when no candidate exists in any directory.
C28_FirstExistingOrNone ==
    call.pc # "called" =>
       /\ call.value.none <=>
             ~\E i \in DOMAIN Searched, j \in DOMAIN call.basenames :
                 Exists(i, j)
       /\ ~call.value.none =>
             \E i \in DOMAIN Searched, j \in DOMAIN call.basenames :
                /\ Exists(i, j)
                /\ call.value.dir = Searched[i]
                /\ call.value.name =
                      ExeName(call.basenames[j], call.platform)
                /\ \A k \in DOMAIN Searched, l \in DOMAIN call.basenames :
                      (k < i \/ (k = i /\ l < j)) => ~Exists(k, l)


\* C29: the query of the version never raises: when the executable is
\* missing, cannot be started or exits with a nonzero status, the failure
\* is swallowed and the version is None.
C29_VersionQueryNeverRaises ==
    (call.fn = "gs_exe" /\ call.engine # "-") =>
        /\ call.pc = "queried"
        /\ call.err = "-"
        /\ call.engine # "ok" => call.version = None


\* An argument of the command line as the message shows it, without the
\* double quotes put around it.
Unquoted(arg) ==
    IF arg # <<>> /\ Head(arg) = "\""
    THEN SubSeq(arg, 2, Len(arg) - 1) ELSE arg

\* A text without its last character, the end of the line.
Chomp(text) == SubSeq(text, 1, Len(text) - 1)

\* C30: when the engine exits with a nonzero status, the exception and the
\* error message made of it carry the command line, the exit status and
\* what the engine wrote to standard error.
C30_FailureCarriesStderr ==
    (call.pc = "pushed" /\ call.err = "CalledProcessError") =>
        /\ call.failure.cmd = GsArgs(call.fn, call.input_path)
        /\ call.failure.returncode # 0
        /\ [i \in DOMAIN call.message.cmdline |->
               Unquoted(call.message.cmdline[i])] = call.failure.cmd
        /\ call.message.returncode = call.failure.returncode
        /\ call.failure.stderr # <<>> =>
              call.message.text = Chomp(call.failure.stderr)

(* ------------- failures of the engine inside a run ------------------ *)

\* The steps of a run that call the engine through check_output().
EngineCalls == {"render_to_pdf", "page_count", "render_page"}

\* The last item thread r has put is a BackendError whose message is not
\* output of the engine: the exception caught came from launching the
\* executable, not from its exit status.
LaunchFailed(r) ==
    LET s == obs[r].put
    IN  /\ obs[r].where \in EngineCalls
        /\ s # <<>>
        /\ s[Len(s)].type = "Error"
        /\ s[Len(s)].msg # PushError(r, "CalledProcessError").msg

\* C31: when the engine executable cannot be launched at the conversion,
\* at the page count or at a page render, the Error the run puts is the
\* diagnostic that asks for Ghostscript to be installed and names the
\* executables searched for, not the text of the exception.
C31_EngineNotFoundDiagnostic ==
    \A r \in Runs :
        LaunchFailed(r) =>
            LET s == obs[r].put
            IN  s[Len(s)].msg = PushError(r, "gs not found").msg

(* ------------- display_file() nested in the wait of erase() ---------- *)

\* The k-th display_file() call the application makes: each call has
\* arguments of its own, so that what the widget shows tells the call.
NestedCall(k) ==
    [path  |-> IF k % 2 = 0 THEN "doc.ps" ELSE "doc.pdf",
     pages |-> IntPages(k)]

\* The display_file() calls issued so far: those that have started their
\* thread and those that wait in erase().
Issued ==
    nRuns + Cardinality({i \in DOMAIN stack : stack[i].pc = "wait_variable"})

\* The widget and the rendering thread of rendering.py where the
\* application calls display_file() again from the event loop that
\* wait_variable() runs inside erase().
NextNested ==
    \/ /\ Issued < MaxNestedRuns
       /\ DisplayFile(NestedCall(Issued + 1).path,
                      NestedCall(Issued + 1).pages)
    \/ WaitReturns
    \/ FirstProcessQueue
    \/ Poll
    \/ \E r \in Runs : ThreadStep(r)

\* Every engine call returns or raises, a thread that can take a step
\* takes it, and the Tk event loop runs the after() callbacks and returns
\* from a wait_variable() whose variable has been written.
SpecNested ==
    /\ Init
    /\ [][NextNested]_vars
    /\ \A r \in Runs : WF_vars(ThreadStep(r))
    /\ WF_vars(Poll)
    /\ WF_vars(FirstProcessQueue)
    /\ WF_vars(WaitReturns)

(* ------------------------------ C32 ---------------------------------- *)

\* The items of a run that end it: None or a BackendError.
Terminal(e) == e.type \in {"Done", "Error"}

\* The canceler of thread r has been set.
CancelerSet(r) ==
    /\ threads[r].canceler # 0
    /\ cancelers[threads[r].canceler]

\* Thread r is running and its canceler has not been set.
Uncancelled(r) ==
    /\ threads[r].pc \notin {"-", "rmtree", "end"}
    /\ ~CancelerSet(r)

\* The widget has taken the terminal item of thread r from its queue.
Consumed(r) ==
    /\ threads[r].queue # 0
    /\ \E i \in DOMAIN history.got[threads[r].queue] :
          /\ Terminal(history.got[threads[r].queue][i].item)
          /\ history.got[threads[r].queue][i].item.run = r

\* C32: every run terminates. With every engine call returning, a run
\* puts at most one terminal item (Done or Error); a run that is not
\* cancelled puts it and the widget takes it; and in the end rendering is
\* off for good and no after() callback is left.
C32_EveryRunTerminates ==
    /\ [](\A r \in Runs :
             Cardinality({i \in DOMAIN obs[r].put :
                              Terminal(obs[r].put[i])}) <= 1)
    /\ \A r \in Runs :
          Uncancelled(r) ~> (CancelerSet(r) \/ Consumed(r))
    /\ <>[](~viewer.rendering /\ polls = 0)

(* ------------------------------ C33 ---------------------------------- *)

\* C33: in every run each page data put on the queue comes right after the
\* PageStarted of the same page, the page data put are, in order, the
\* first pages of the resolved list, and the PageStarted put are as many
\* as the page data or one more.
C33_PageStartedBeforePageData ==
    \A r \in Runs :
        LET s == obs[r].put
        IN  /\ \A i \in DOMAIN s :
                  s[i].type = "PageData" =>
                      /\ i > 1
                      /\ s[i - 1].type = "PageStarted"
                      /\ s[i - 1].page = s[i].page
            /\ Len(PagesOf(s)) <= Len(obs[r].resolved)
            /\ PagesOf(s) = SubSeq(obs[r].resolved, 1, Len(PagesOf(s)))
            /\ Count(s, "PageStarted") - Count(s, "PageData") \in {0, 1}

(* ------------------------------ C34 ---------------------------------- *)

\* C34: render_page is never called with a page number outside
\* 1..page_count: the page a thread is about to render, and every page
\* left in its list, is a page of the document its backend holds, and the
\* list left is the tail of the list resolved against the page count that
\* backend gave.
C34_RenderedPagesInRange ==
    \A r \in Runs :
        LET t == threads[r]
            n == Len(obs[r].resolved)
        IN  t.pc = "render_page" =>
               /\ t.display_pages # <<>>
               /\ \A i \in DOMAIN t.display_pages :
                     t.display_pages[i] \in 1..DocPages(t.gs)
               /\ Len(t.display_pages) <= n
               /\ t.display_pages =
                     SubSeq(obs[r].resolved, n - Len(t.display_pages) + 1, n)

\* C34 witness: a thread whose pages argument names a page past the end of
\* the document is about to render a page.
C34_PastEndRequested ==
    \E r \in Runs :
        /\ threads[r].pc = "render_page"
        /\ \E i \in DOMAIN threads[r].pages.v :
              threads[r].pages.v[i] > DocPages(threads[r].gs)

(* ------------------------------ C35 ---------------------------------- *)

\* C35: a run for a path that does not name an existing file puts exactly
\* one Error and nothing else and ends: it makes no backend and no
\* temporary directory and never reaches a call of the engine.
C35_MissingFileOneError ==
    \A r \in Runs :
        LET t == threads[r]
        IN  ~IsFile(t.path) =>
               /\ t.pc \in {"run", "end"}
               /\ t.pc = "run" => obs[r].put = <<>>
               /\ t.pc = "end" =>
                     obs[r].put = <<PushError(r, "no file")>>
               /\ obs[r].raised = 0
               /\ t.gs = None
               /\ ~t.temp_dir
               /\ ~disk[r]

\* C35 witness: the thread started for a missing file has ended and the
\* widget shows its error.
C35_MissingFileShown ==
    \E r \in Runs :
        /\ ~IsFile(threads[r].path)
        /\ threads[r].pc = "end"
        /\ Count(obs[r].put, "Error") = 1
        /\ viewer.message = PushError(r, "no file").msg

(* ------------------------------ C36 ---------------------------------- *)

\* C36: the call of _process_queue that takes the terminal item of a run
\* (rendering goes off) drops the queue and the canceler and schedules no
\* further callback; no item is taken from a queue after its terminal
\* item; and whenever rendering is off the widget holds neither a queue
\* nor a canceler.
C36_TerminalDropsQueue ==
    /\ [](~viewer.rendering => viewer.queue = 0 /\ viewer.canceler = 0)
    /\ [](\A q \in Runs :
             \A i \in DOMAIN history.got[q] :
                 Terminal(history.got[q][i].item) =>
                     i = Len(history.got[q]))
    /\ [][viewer.rendering /\ ~viewer'.rendering =>
             /\ viewer'.queue = 0
             /\ viewer'.canceler = 0
             /\ polls' <= polls
             /\ Terminal(history'.got[viewer.queue]
                             [Len(history'.got[viewer.queue])].item)]_vars

\* C36 witness: the widget has taken the Done of a run after its page
\* data, has dropped the queue, and no callback is left.
C36_QueueDroppedAfterDone ==
    /\ ~viewer.rendering
    /\ viewer.queue = 0
    /\ polls = 0
    /\ stack = <<>>
    /\ \E q \in Runs :
          /\ Len(history.got[q]) > 1
          /\ history.got[q][Len(history.got[q])].item.type = "Done"

(* ------------------------------ C37 ---------------------------------- *)

\* The widget takes a page data item from its queue in this step.
TakesPageData ==
    /\ viewer.queue # 0
    /\ Len(history'.got[viewer.queue]) = Len(history.got[viewer.queue]) + 1
    /\ IsPageData(history'.got[viewer.queue]
                      [Len(history'.got[viewer.queue])].item)

\* C37: the widget's rendered_page_count never exceeds its page_count,
\* whatever the pages argument, and it grows by exactly one with each page
\* data the widget takes.
C37_RenderedAtMostPageCount ==
    /\ [](viewer.rendered_page_count <= viewer.page_count)
    /\ [][TakesPageData =>
             viewer'.rendered_page_count = viewer.rendered_page_count + 1]_vars

(* ------------------------------ C38 ---------------------------------- *)

\* C38: at most one rendering thread that is running with its canceler
\* unset exists at any time, and a thread is started only with rendering
\* off: display_file has cancelled the run before and waited for its end.
C38_OneUncancelledWorker ==
    /\ [](Cardinality({r \in Runs : Uncancelled(r)}) <= 1)
    /\ [][nRuns' # nRuns => ~viewer.rendering]_vars

(* ------------------------------ C39 ---------------------------------- *)

\* C39: once every display_file() call issued has returned, the queue the
\* widget polls, if it holds one, is that of the thread started for the
\* most recent call; and when rendering has ended with no error shown and
\* no callback is left, display_path and display_pages are the arguments
\* of the most recent call.
C39_ShowsLatestCall ==
    (stack = <<>> /\ Issued > 0) =>
        /\ viewer.queue # 0 =>
              /\ threads[viewer.queue].path = NestedCall(Issued).path
              /\ threads[viewer.queue].pages = NestedCall(Issued).pages
        /\ (~viewer.rendering /\ polls = 0 /\ viewer.message = None) =>
              /\ viewer.display_path = NestedCall(Issued).path
              /\ viewer.display_pages = NestedCall(Issued).pages

(* ------------------------------ C40 ---------------------------------- *)

\* Number of temporary files one backend object may record.
MaxTempFiles == 2

\* Backend.__init__ of a backend that converts nothing in its constructor
BackendInit(b) ==
    /\ backends[b].pc = "-"
    /\ backends' = [backends EXCEPT ![b].pc = "ready", ![b].temp_files = <<>>]
    /\ UNCHANGED <<call, resolver, viewer, polls, stack, nRuns, threads,
                   queues, cancelers, disk, history, obs, tempfiles>>

\* A backend makes a temporary file with tempfile.mkstemp() and records it:
\* self.temp_files.append(path)
RecordTempFile(b) ==
    /\ backends[b].pc = "ready"
    /\ Len(backends[b].temp_files) < MaxTempFiles
    /\ LET path == tempfiles.made + 1
       IN  /\ tempfiles' = [disk |-> tempfiles.disk \cup {path},
                            made |-> path]
           /\ backends' = [backends EXCEPT ![b].temp_files = Append(@, path)]
    /\ UNCHANGED <<call, resolver, viewer, polls, stack, nRuns, threads,
                   queues, cancelers, disk, history, obs>>

\* Backend objects that record temporary files and are destroyed.
NextDel ==
    \/ \E b \in BackendIds : BackendInit(b)
    \/ \E b \in BackendIds : RecordTempFile(b)
    \/ \E b \in BackendIds : Del(b)
    \/ \E b \in BackendIds : DelNext(b)

SpecDel == Init /\ [][NextDel]_vars

\* C40: once a backend object has been destroyed its temp_files is empty
\* and every file it recorded is gone from disk: a temporary file on disk
\* is recorded by an object that is still there.
C40_DelRemovesEveryTempFile ==
    /\ \A b \in BackendIds :
          backends[b].pc = "dead" => backends[b].temp_files = <<>>
    /\ \A path \in tempfiles.disk :
          \E b \in BackendIds :
              /\ backends[b].pc # "dead"
              /\ \E i \in DOMAIN backends[b].temp_files :
                    backends[b].temp_files[i] = path

====
